---- MODULE Spec2Model ----
(***************************************************************************)
(* The decision-and-learning loop of kei-cargo-impression-agent: the arm   *)
(* store of the bandit (updateArm, injectExternalPriors, selectArm), the   *)
(* pattern miner (minePatterns, getPatternDistribution) and the template   *)
(* synthesizer (synthesizeTemplates, getCurrentWeights).                   *)
(*                                                                         *)
(* Strings are sequences of tokens.  ":" and "*" are tokens of their own;  *)
(* a decimal digit is a token; any other token stands for a non-empty run  *)
(* of characters that holds neither ":" nor "*".  The empty string is <<>>.*)
(*                                                                         *)
(* Reals are fixed-point integers:                                         *)
(*   reward, totalReward      in units of 1/RewardScale                    *)
(*   alpha, beta              in units of 1/AlphaOne                       *)
(*   buzzScore, avgBuzz       in units of 1/BuzzOne                        *)
(*   weight                   in units of 1/WeightOne                      *)
(*   qualityScore             in units of 1/QualityOne                     *)
(***************************************************************************)
EXTENDS Integers, Sequences, FiniteSets, TLC

VARIABLES
    armPriors,        \* table arm_priors: armId -> row (armId is UNIQUE)
    patterns,         \* table patterns: the rows in insertion order
    templateWeights,  \* table template_weights: the rows in insertion order
    now,              \* the clock, in days; day 0 is a Sunday
    publishedPosts,   \* table published_posts: the rows in insertion order
    metrics,          \* table metrics: the rows in insertion order
    learnLog,         \* per published post: whether runLearningUpdate
                      \* skipped it for want of its snapshot, and how
                      \* often it applied its reward
    tasks,            \* the calls in flight: per task, the operation, its
                      \* arguments, what it has read and where it stands
    scheduledPosts,   \* table scheduled_posts: id -> row
    learningState,    \* table learning_state, key consecutive_failures:
                      \* <<>> without the row, else <<its count>>
    platformPosts,    \* per scheduled post, how often the platform has
                      \* accepted a post of it
    call,             \* the last operation called, with its arguments
    result,           \* what the last operation returned
    calls             \* how many calls of the operations were made

vars == <<armPriors, patterns, templateWeights, now, publishedPosts, metrics,
          learnLog, tasks, scheduledPosts, learningState, platformPosts,
          call, result, calls>>

\* the tables of the learning job
learning == <<publishedPosts, metrics, learnLog>>

\* the publisher's tables and the platform
publishing == <<scheduledPosts, learningState, platformPosts>>

----------------------------------------------------------------------------
(* Bounds of the model *)

NumFormats == 2      \* how many of config.formats the model uses
NumHookTypes == 2    \* how many of config.hookTypes the model uses
NumTopics == 1       \* how many of config.topics the model uses
MaxCalls == 3        \* calls of the operations in one behaviour
MaxDay == 1          \* the last day the clock reaches
NumPayloadTypes == 1 \* how many of config.payloadTypes the model uses
NumPosts == 4        \* harvested posts that pass the filter of minePatterns
MineLimit == 3       \* the limit of minePatterns' query (50 in the program)
MaxImpressions == 30 \* calculateReward is tried on 0 .. MaxImpressions
MaxCount == 1        \* the highest count of likes, of reposts, ... of a tweet
NumTasks == 2        \* how many calls can be in flight at a time
NumScheduled == 2    \* the scheduled posts that are due
DueLimit == 2        \* the limit of publishDuePosts' query (5 in the program)
maxConsecutiveFails == 2 \* config.maxConsecutiveFails (5 unless configured)

----------------------------------------------------------------------------
(* Numbers *)

RewardScale == 2
RewardDivisor == 10
AlphaOne == RewardDivisor * RewardScale
BuzzOne == 100
WeightOne == 100
QualityOne == 100
BuzzFloor == 1
MinInjectSamples == 3

Min(a, b) == IF a < b THEN a ELSE b
Max(a, b) == IF a > b THEN a ELSE b

RECURSIVE Power(_, _)
Power(b, e) == IF e = 0 THEN 1 ELSE b * Power(b, e - 1)

RECURSIVE MaxOf(_, _)
\* Math.max(...values, floor)
MaxOf(S, floor) ==
    IF S = {} THEN floor
    ELSE LET v == CHOOSE v \in S : TRUE IN Max(v, MaxOf(S \ {v}, floor))

----------------------------------------------------------------------------
(* Strings and JavaScript values *)

Undefined == <<"<undefined>">>
Null == <<"<null>">>
NoDay == 0 - 1
NaN == 0 - 2
Star == <<"*">>
Colon == ":"

Digits == <<"0", "1", "2", "3", "4", "5", "6", "7", "8", "9">>

\* v || "*"
OrStar(v) == IF v = Undefined \/ v = <<>> THEN Star ELSE v

RECURSIVE toString(_)
\* Number.prototype.toString of a non-negative integer
toString(n) ==
    IF n < 10 THEN <<Digits[n + 1]>>
    ELSE toString(n \div 10) \o <<Digits[(n % 10) + 1]>>

IsDigit(c) == \E i \in 1..10 : Digits[i] = c
DigitValue(c) == (CHOOSE i \in 1..10 : Digits[i] = c) - 1

RECURSIVE ParseDigits(_, _)
ParseDigits(s, acc) ==
    IF s = <<>> \/ ~IsDigit(Head(s)) THEN acc
    ELSE ParseDigits(Tail(s), 10 * acc + DigitValue(Head(s)))

\* parseInt(s): the leading decimal digits of s, NaN when there are none
parseInt(s) ==
    IF s = <<>> \/ ~IsDigit(Head(s)) THEN NaN ELSE ParseDigits(s, 0)

RECURSIVE Join(_)
\* Array.prototype.join(":")
Join(segs) ==
    IF segs = <<>> THEN <<>>
    ELSE IF Len(segs) = 1 THEN segs[1]
    ELSE segs[1] \o <<Colon>> \o Join(Tail(segs))

RECURSIVE Split(_)
\* String.prototype.split(":")
Split(s) ==
    IF \A i \in 1..Len(s) : s[i] # Colon THEN <<s>>
    ELSE LET i == CHOOSE i \in 1..Len(s) :
                      /\ s[i] = Colon
                      /\ \A j \in 1..(i - 1) : s[j] # Colon
         IN <<SubSeq(s, 1, i - 1)>> \o Split(SubSeq(s, i + 1, Len(s)))

\* parts[k] of a JavaScript array (0-based; undefined past the end)
At(parts, k) == IF k + 1 <= Len(parts) THEN parts[k + 1] ELSE Undefined

----------------------------------------------------------------------------
(* Configuration *)

Platforms == {<<"x">>, <<"threads">>}

AllFormats ==
    << <<"one_liner">>, <<"checklist">>, <<"compare">>, <<"story">>,
       <<"faq">>, <<"question">>, <<"myth_bust">> >>

AllHookTypes ==
    << <<"keikoku">>, <<"sonshitsu_kaihi">>, <<"gyakusetsu">>, <<"suuji">>,
       <<"jittaiken">>, <<"enjou_yobou">>, <<"tenpure_sengen">> >>

AllPayloadTypes ==
    << <<"know_how">>, <<"aruaru">>, <<"kyuujin_shinri">>, <<"tanka_hikaku">>,
       <<"zei_hoken">>, <<"soubi">>, <<"kisetsu_hadou">> >>

AllTopics ==
    << <<"tanka_koushou">>, <<"nenpi_kaizen">>, <<"kakutei_shinkoku">>,
       <<"sharyou_erabi">>, <<"itaku_vs_seishain">>, <<"hanbouki_taisaku">>,
       <<"tairyoku_kanri">>, <<"route_kouritsu">>, <<"saihaitatsu_taisaku">>,
       <<"hoken_erabi">>, <<"kaigyou_junbi">>, <<"jikan_kanri">>,
       <<"kokyaku_taiou">>, <<"trouble_taisho">>, <<"fukugyou_keikamotsu">> >>

formats == SubSeq(AllFormats, 1, NumFormats)
hookTypes == SubSeq(AllHookTypes, 1, NumHookTypes)
topics == SubSeq(AllTopics, 1, NumTopics)
payloadTypes == SubSeq(AllPayloadTypes, 1, NumPayloadTypes)

Range(seq) == {seq[i] : i \in 1..Len(seq)}

----------------------------------------------------------------------------
(* Arms *)

\* Partial<Arm>: a field that is not set is Undefined (dayOfWeek: NoDay)
Arm(platform, format, hookType, topic, lengthBucket, timeBucket, dayOfWeek, emojiDensity) ==
    [platform |-> platform, format |-> format, hookType |-> hookType,
     topic |-> topic, lengthBucket |-> lengthBucket,
     timeBucket |-> timeBucket, dayOfWeek |-> dayOfWeek,
     emojiDensity |-> emojiDensity]

\* getArmId with `arm.dayOfWeek ? ... : "*"`: Sunday, day 0, reads as unset
getArmIdFalsyDay(arm) ==
    Join(<< OrStar(arm.platform), OrStar(arm.format), OrStar(arm.hookType),
            OrStar(arm.topic), OrStar(arm.lengthBucket),
            OrStar(arm.timeBucket),
            OrStar(IF arm.dayOfWeek = NoDay \/ arm.dayOfWeek = 0 THEN Undefined
                   ELSE toString(arm.dayOfWeek)),
            OrStar(arm.emojiDensity) >>)

getArmId(arm) ==
    Join(<< OrStar(arm.platform),
            OrStar(arm.format),
            OrStar(arm.hookType),
            OrStar(arm.topic),
            OrStar(arm.lengthBucket),
            OrStar(arm.timeBucket),
            OrStar(IF arm.dayOfWeek = NoDay THEN Undefined
                   ELSE toString(arm.dayOfWeek)),
            OrStar(arm.emojiDensity) >>)

\* a column the insert gives no value or undefined for is NULL
Column(v) == IF v = Undefined THEN Null ELSE v

\* normalizedReward without the clamp
RewardNotClamped(reward) == reward

\* Math.min(1, Math.max(0, reward / 10)), in units of 1/AlphaOne
normalizedReward(reward) == Min(AlphaOne, Max(0, reward))

\* the dimension columns updateArm parses out of an armId, reading the
\* segments one place too early
ParsedDimensionsShifted(armId) ==
    LET parts == Split(armId)
    IN [format |-> IF At(parts, 0) # Star THEN Column(At(parts, 0)) ELSE Null,
        hookType |-> IF At(parts, 1) # Star THEN Column(At(parts, 1)) ELSE Null,
        topic |-> IF At(parts, 2) # Star THEN Column(At(parts, 2)) ELSE Null,
        lengthBucket |->
            IF At(parts, 3) # Star THEN Column(At(parts, 3)) ELSE Null,
        timeBucket |->
            IF At(parts, 4) # Star THEN Column(At(parts, 4)) ELSE Null,
        dayOfWeek |-> IF At(parts, 5) # Star THEN parseInt(At(parts, 5)) ELSE NoDay,
        emojiDensity |->
            IF At(parts, 6) # Star THEN Column(At(parts, 6)) ELSE Null]

\* the dimension columns updateArm parses out of an armId
ParsedDimensions(armId) ==
    LET parts == Split(armId)
    IN [format |-> IF At(parts, 1) # Star THEN Column(At(parts, 1)) ELSE Null,
        hookType |-> IF At(parts, 2) # Star THEN Column(At(parts, 2)) ELSE Null,
        topic |-> IF At(parts, 3) # Star THEN Column(At(parts, 3)) ELSE Null,
        lengthBucket |->
            IF At(parts, 4) # Star THEN Column(At(parts, 4)) ELSE Null,
        timeBucket |->
            IF At(parts, 5) # Star THEN Column(At(parts, 5)) ELSE Null,
        dayOfWeek |-> IF At(parts, 6) # Star THEN parseInt(At(parts, 6)) ELSE NoDay,
        emojiDensity |->
            IF At(parts, 7) # Star THEN Column(At(parts, 7)) ELSE Null]

\* the row updateArm inserts for an armId that has none
NewArmRow(armId, platform, reward) ==
    LET dims == ParsedDimensions(armId)
        n == normalizedReward(reward)
    IN [armId |-> armId,
        platform |-> platform,
        format |-> dims.format,
        hookType |-> dims.hookType,
        topic |-> dims.topic,
        lengthBucket |-> dims.lengthBucket,
        timeBucket |-> dims.timeBucket,
        dayOfWeek |-> dims.dayOfWeek,
        emojiDensity |-> dims.emojiDensity,
        alpha |-> AlphaOne + n,
        beta |-> 2 * AlphaOne - n,
        totalReward |-> reward,
        pullCount |-> 1,
        source |-> "self_learning"]

\* UpdatedArmRow adding the reward to beta as well
UpdatedArmRowBetaUp(existing, reward) ==
    LET n == Min(AlphaOne, Max(0, reward))
    IN [existing EXCEPT !.alpha = existing.alpha + n,
                        !.beta = existing.beta + n,
                        !.totalReward = existing.totalReward + reward,
                        !.pullCount = existing.pullCount + 1]

\* the row updateArm writes over an existing one
UpdatedArmRow(existing, reward) ==
    LET n == normalizedReward(reward)
    IN [existing EXCEPT !.alpha = existing.alpha + n,
                        !.beta = existing.beta + (AlphaOne - n),
                        !.totalReward = existing.totalReward + reward,
                        !.pullCount = existing.pullCount + 1]

\* the arm store after updateArm's update or insert
UpdatedStore(store, armId, platform, reward) ==
    IF armId \in DOMAIN store
    THEN [store EXCEPT ![armId] = UpdatedArmRow(store[armId], reward)]
    ELSE store @@ (armId :> NewArmRow(armId, platform, reward))

updateArm(armId, platform, reward) ==
    /\ armPriors' = UpdatedStore(armPriors, armId, platform, reward)
    /\ call' = [op |-> "updateArm", armId |-> armId, platform |-> platform,
                reward |-> reward]
\* 1 + priorBoost * 2 with priorBoost = avgBuzz / maxBuzz, in units of 1/AlphaOne
priorAlpha(avgBuzz, maxBuzz) == AlphaOne + (2 * AlphaOne * avgBuzz) \div maxBuzz

\* InjectArm writing the computed prior over a larger alpha
InjectArmOverwrite(store, platform, arm, alpha) ==
    LET armId == getArmId(arm)
    IN IF armId \in DOMAIN store
       THEN [store EXCEPT ![armId] =
                [@ EXCEPT !.alpha = alpha, !.source = "external_patterns"]]
       ELSE store @@ (armId :>
                [armId |-> armId, platform |-> platform,
                 format |-> Column(arm.format),
                 hookType |-> Column(arm.hookType),
                 topic |-> Null, lengthBucket |-> Null, timeBucket |-> Null,
                 dayOfWeek |-> NoDay, emojiDensity |-> Null,
                 alpha |-> alpha, beta |-> AlphaOne, totalReward |-> 0,
                 pullCount |-> 0, source |-> "external_patterns"])

\* one pass of a loop body of injectExternalPriors: the arm of one value
InjectArm(store, platform, arm, alpha) ==
    LET armId == getArmId(arm)
    IN IF armId \in DOMAIN store
       THEN [store EXCEPT ![armId] =
                [@ EXCEPT !.alpha = Max(@, alpha),
                          !.source = "external_patterns"]]
       ELSE store @@ (armId :>
                [armId |-> armId,
                 platform |-> platform,
                 format |-> Column(arm.format),
                 hookType |-> Column(arm.hookType),
                 topic |-> Null,
                 lengthBucket |-> Null,
                 timeBucket |-> Null,
                 dayOfWeek |-> NoDay,
                 emojiDensity |-> Null,
                 alpha |-> alpha,
                 beta |-> AlphaOne,
                 totalReward |-> 0,
                 pullCount |-> 0,
                 source |-> "external_patterns"])

FormatArm(platform, format) ==
    Arm(platform, format, Undefined, Undefined, Undefined, Undefined, NoDay,
        Undefined)

HookArm(platform, hookType) ==
    Arm(platform, Undefined, hookType, Undefined, Undefined, Undefined, NoDay,
        Undefined)

RECURSIVE InjectFormatsFromTwo(_, _, _, _, _)
\* InjectFormats with the threshold at 2 samples
InjectFormatsFromTwo(store, platform, data, keys, maxBuzz) ==
    IF keys = {} THEN store
    ELSE LET k == CHOOSE k \in keys : TRUE
             next == IF data[k].count < 2 THEN store
                     ELSE InjectArm(store, platform, FormatArm(platform, k),
                                    priorAlpha(data[k].avgBuzz, maxBuzz))
         IN InjectFormatsFromTwo(next, platform, data, keys \ {k}, maxBuzz)

RECURSIVE InjectFormats(_, _, _, _, _)
\* for (const [format, data] of Object.entries(distribution.formats))
InjectFormats(store, platform, data, keys, maxBuzz) ==
    IF keys = {} THEN store
    ELSE LET k == CHOOSE k \in keys : TRUE
             next == IF data[k].count < MinInjectSamples THEN store
                     ELSE InjectArm(store, platform, FormatArm(platform, k),
                                    priorAlpha(data[k].avgBuzz, maxBuzz))
         IN InjectFormats(next, platform, data, keys \ {k}, maxBuzz)

RECURSIVE InjectHookTypes(_, _, _, _, _)
\* for (const [hookType, data] of Object.entries(distribution.hookTypes))
InjectHookTypes(store, platform, data, keys, maxBuzz) ==
    IF keys = {} THEN store
    ELSE LET k == CHOOSE k \in keys : TRUE
             next == IF data[k].count < MinInjectSamples THEN store
                     ELSE InjectArm(store, platform, HookArm(platform, k),
                                    priorAlpha(data[k].avgBuzz, maxBuzz))
         IN InjectHookTypes(next, platform, data, keys \ {k}, maxBuzz)

BuzzValues(data) == {data[k].avgBuzz : k \in DOMAIN data}

injectExternalPriors(platform, distribution) ==
    LET maxFormatBuzz == MaxOf(BuzzValues(distribution.formats), BuzzFloor)
        maxHookBuzz == MaxOf(BuzzValues(distribution.hookTypes), BuzzFloor)
        afterFormats ==
            InjectFormats(armPriors, platform, distribution.formats,
                          DOMAIN distribution.formats, maxFormatBuzz)
        afterHookTypes ==
            InjectHookTypes(afterFormats, platform, distribution.hookTypes,
                            DOMAIN distribution.hookTypes, maxHookBuzz)
    IN /\ armPriors' = afterHookTypes
       /\ call' = [op |-> "injectExternalPriors", platform |-> platform,
                   distribution |-> distribution]

----------------------------------------------------------------------------
(* Harvested posts and the pattern miner *)

MinBuzzToMine == 10
DistributionDays == 7
DistributionLimit == 100

\* table external_posts.  The harvester is not modelled: the table holds
\* NumPosts posts that pass minePatterns' filter, each with a third of the
\* buzz score of the one before and the last at the floor of 0.1, then one
\* suspected of spam with the highest score and one below the floor.
externalPosts ==
    [id \in 1..(NumPosts + 2) |->
        [id |-> id,
         buzzScore |-> IF id = NumPosts + 2 THEN MinBuzzToMine \div 2
                       ELSE IF id = NumPosts + 1
                       THEN MinBuzzToMine * Power(3, NumPosts)
                       ELSE MinBuzzToMine * Power(3, NumPosts - id),
         isSpamSuspect |-> (id = NumPosts + 1),
         isJapanese |-> TRUE]]

\* the ids of S in the order of decreasing buzz score
RECURSIVE ByBuzzDesc(_)
ByBuzzDesc(S) ==
    IF S = {} THEN <<>>
    ELSE LET top == CHOOSE i \in S :
                        \A j \in S : externalPosts[j].buzzScore
                                        <= externalPosts[i].buzzScore
         IN <<top>> \o ByBuzzDesc(S \ {top})

Take(seq, n) == SubSeq(seq, 1, Min(n, Len(seq)))

\* minePatterns' query: not spam, Japanese, buzz >= 0.1, most buzz first,
\* at most MineLimit
postsToMine ==
    Take(ByBuzzDesc({i \in DOMAIN externalPosts :
                        /\ ~externalPosts[i].isSpamSuspect
                        /\ externalPosts[i].isJapanese
                        /\ externalPosts[i].buzzScore >= MinBuzzToMine}),
         MineLimit)

\* the posts of the query that have no pattern yet
unmined ==
    LET minedIds == {patterns[i].externalPostId : i \in DOMAIN patterns}
        NotMined(id) == id \notin minedIds
    IN SelectSeq(postsToMine, NotMined)

\* the row minePatterns inserts for a post and its extracted pattern
PatternRow(id, postId, pattern) ==
    [id |-> id,
     externalPostId |-> postId,
     extractedAt |-> now,
     format |-> pattern.format,
     hookType |-> pattern.hookType,
     payloadType |-> pattern.payloadType,
     tabooFlags |-> pattern.tabooFlags,
     qualityScore |-> pattern.qualityScore]

\* MineStep skipping only below a quality of 0.5, whatever the taboo flags
MineStepNoTaboo(state, postId, outcome) ==
    LET counted == [state EXCEPT !.processed = @ + 1]
    IN IF outcome.kind = "extract_throws"
       THEN [counted EXCEPT !.errors = Append(@, postId)]
       ELSE IF outcome.pattern.qualityScore < QualityOne \div 2
       THEN [counted EXCEPT !.skipped = @ + 1]
       ELSE IF outcome.kind = "insert_throws"
       THEN [counted EXCEPT !.errors = Append(@, postId)]
       ELSE [counted EXCEPT
                !.rows = Append(@, PatternRow(Len(@) + 1, postId, outcome.pattern)),
                !.extracted = @ + 1]

\* MineStep counting the post as extracted before the insert is tried
MineStepCountsBeforeInsert(state, postId, outcome) ==
    LET counted == [state EXCEPT !.processed = @ + 1]
    IN IF outcome.kind = "extract_throws"
       THEN [counted EXCEPT !.errors = Append(@, postId)]
       ELSE IF \/ outcome.pattern.qualityScore < QualityOne \div 2
               \/ Len(outcome.pattern.tabooFlags) >= 2
       THEN [counted EXCEPT !.skipped = @ + 1]
       ELSE IF outcome.kind = "insert_throws"
       THEN [counted EXCEPT !.extracted = @ + 1,
                            !.errors = Append(@, postId)]
       ELSE [counted EXCEPT
                !.rows = Append(@, PatternRow(Len(@) + 1, postId, outcome.pattern)),
                !.extracted = @ + 1]

\* one pass of minePatterns' loop body.  outcome.kind tells what the
\* collaborators do for this post: extractPattern throws, or it returns
\* outcome.pattern and the insert then succeeds ("ok") or throws
MineStep(state, postId, outcome) ==
    LET counted == [state EXCEPT !.processed = @ + 1]
    IN IF outcome.kind = "extract_throws"
       THEN [counted EXCEPT !.errors = Append(@, postId)]
       ELSE IF \/ outcome.pattern.qualityScore < QualityOne \div 2
               \/ Len(outcome.pattern.tabooFlags) >= 2
       THEN [counted EXCEPT !.skipped = @ + 1]
       ELSE IF outcome.kind = "insert_throws"
       THEN [counted EXCEPT !.errors = Append(@, postId)]
       ELSE [counted EXCEPT
                !.rows = Append(@, PatternRow(Len(@) + 1, postId, outcome.pattern)),
                !.extracted = @ + 1]

RECURSIVE MineLoop(_, _, _)
\* for (const post of unmined)
MineLoop(state, posts, outcomes) ==
    IF posts = <<>> THEN state
    ELSE MineLoop(MineStep(state, Head(posts), outcomes[Head(posts)]),
                  Tail(posts), outcomes)

\* minePatterns(); outcomes gives the collaborators' behaviour for each
\* post of unmined
minePatterns(outcomes) ==
    LET start == [rows |-> patterns, processed |-> 0, extracted |-> 0,
                  skipped |-> 0, errors |-> <<>>]
        end == MineLoop(start, unmined, outcomes)
    IN /\ patterns' = end.rows
       /\ result' = [processed |-> end.processed, extracted |-> end.extracted,
                     skipped |-> end.skipped, errors |-> end.errors]
       /\ call' = [op |-> "minePatterns", posts |-> unmined,
                   outcomes |-> outcomes]

\* the key -> {count, totalBuzz} table of one dimension, then toAvg
DimensionTable(rows, dimension) ==
    LET keys == {rows[i][dimension] : i \in DOMAIN rows} \ {Null, <<>>}
    IN [k \in keys |->
          LET idx == {i \in DOMAIN rows : rows[i][dimension] = k}
              RECURSIVE TotalBuzz(_)
              TotalBuzz(S) ==
                  IF S = {} THEN 0
                  ELSE LET i == CHOOSE i \in S : TRUE
                       IN externalPosts[rows[i].externalPostId].buzzScore
                            + TotalBuzz(S \ {i})
              count == Cardinality(idx)
          IN [count |-> count,
              avgBuzz |-> IF count > 0 THEN TotalBuzz(idx) \div count ELSE 0]]

\* the newest `limit` rows of the patterns extracted at or after cutoff
RecentPatterns(cutoff, limit) ==
    LET InWindow(row) == row.extractedAt >= cutoff
        recent == SelectSeq(patterns, InWindow)
    IN IF Len(recent) <= limit THEN recent
       ELSE SubSeq(recent, Len(recent) - limit + 1, Len(recent))

getPatternDistribution(days) ==
    LET recentPatterns == RecentPatterns(now - days, DistributionLimit)
    IN [formats |-> DimensionTable(recentPatterns, "format"),
        hookTypes |-> DimensionTable(recentPatterns, "hookType"),
        payloadTypes |-> DimensionTable(recentPatterns, "payloadType")]

----------------------------------------------------------------------------
(* The template synthesizer *)

\* getDay() of the clock: 0 is Sunday
getDay == now % 7

\* Monday 00:00 of the current week, as a day number
getWeekStart == now - getDay + (IF getDay = 0 THEN 0 - 6 ELSE 1)

\* calculateWeight without the guard on count
calculateWeightNoGuard(avgBuzz, count, maxBuzz) ==
    IF maxBuzz = 0 THEN WeightOne
    ELSE WeightOne \div 2 + (avgBuzz * ((3 * WeightOne) \div 2)) \div maxBuzz

\* calculateWeight without the 0.5 it starts from
calculateWeightNoBase(avgBuzz, count, maxBuzz) ==
    IF count < 2 \/ maxBuzz = 0 THEN WeightOne
    ELSE (avgBuzz * ((3 * WeightOne) \div 2)) \div maxBuzz

\* 0.5 + (avgBuzz / maxBuzz) * 1.5, in units of 1/WeightOne
calculateWeight(avgBuzz, count, maxBuzz) ==
    IF count < 2 \/ maxBuzz = 0 THEN WeightOne
    ELSE WeightOne \div 2 + (avgBuzz * ((3 * WeightOne) \div 2)) \div maxBuzz

\* MatchesWeight without the condition on the week
MatchesWeightAnyWeek(row, params) ==
    /\ row.platform = params.platform
    /\ params.format # Null => row.format = params.format
    /\ params.hookType # Null => row.hookType = params.hookType
    /\ params.payloadType # Null => row.payloadType = params.payloadType

\* the where clause of upsertWeight's findFirst: a parameter that is null
\* adds no condition
MatchesWeight(row, params) ==
    /\ row.weekStart = params.weekStart
    /\ row.platform = params.platform
    /\ params.format # Null => row.format = params.format
    /\ params.hookType # Null => row.hookType = params.hookType
    /\ params.payloadType # Null => row.payloadType = params.payloadType

upsertWeight(rows, params) ==
    LET found == {i \in DOMAIN rows : MatchesWeight(rows[i], params)}
    IN IF found # {}
       THEN LET i == CHOOSE i \in found : \A j \in found : i <= j
            IN [rows EXCEPT ![i] = [@ EXCEPT !.weight = params.weight,
                                             !.sampleCount = params.sampleCount,
                                             !.avgBuzzScore = params.avgBuzzScore]]
       ELSE Append(rows, params)

WeightParams(platform, format, hookType, payloadType, data, maxBuzz) ==
    [weekStart |-> getWeekStart,
     platform |-> platform,
     format |-> format,
     hookType |-> hookType,
     payloadType |-> payloadType,
     weight |-> calculateWeight(data.avgBuzz, data.count, maxBuzz),
     sampleCount |-> data.count,
     avgBuzzScore |-> data.avgBuzz]

\* distribution.formats[format] || { count: 0, avgBuzz: 0 }
DataOrZero(table, key) ==
    IF key \in DOMAIN table THEN table[key] ELSE [count |-> 0, avgBuzz |-> 0]

RECURSIVE SynthFormats(_, _, _, _, _)
\* for (const format of config.formats)
SynthFormats(rows, platform, list, table, maxBuzz) ==
    IF list = <<>> THEN rows
    ELSE SynthFormats(
            upsertWeight(rows, WeightParams(platform, Head(list), Null, Null,
                                            DataOrZero(table, Head(list)), maxBuzz)),
            platform, Tail(list), table, maxBuzz)

RECURSIVE SynthHookTypes(_, _, _, _, _)
\* for (const hookType of config.hookTypes)
SynthHookTypes(rows, platform, list, table, maxBuzz) ==
    IF list = <<>> THEN rows
    ELSE SynthHookTypes(
            upsertWeight(rows, WeightParams(platform, Null, Head(list), Null,
                                            DataOrZero(table, Head(list)), maxBuzz)),
            platform, Tail(list), table, maxBuzz)

RECURSIVE SynthPayloadTypes(_, _, _, _, _)
\* for (const payloadType of config.payloadTypes)
SynthPayloadTypes(rows, platform, list, table, maxBuzz) ==
    IF list = <<>> THEN rows
    ELSE SynthPayloadTypes(
            upsertWeight(rows, WeightParams(platform, Null, Null, Head(list),
                                            DataOrZero(table, Head(list)), maxBuzz)),
            platform, Tail(list), table, maxBuzz)

\* the body of the loop over the platforms
SynthPlatform(rows, platform, distribution) ==
    LET maxFormatBuzz == MaxOf(BuzzValues(distribution.formats), BuzzFloor)
        maxHookBuzz == MaxOf(BuzzValues(distribution.hookTypes), BuzzFloor)
        maxPayloadBuzz == MaxOf(BuzzValues(distribution.payloadTypes), BuzzFloor)
        r1 == SynthFormats(rows, platform, formats, distribution.formats,
                           maxFormatBuzz)
        r2 == SynthHookTypes(r1, platform, hookTypes, distribution.hookTypes,
                             maxHookBuzz)
    IN SynthPayloadTypes(r2, platform, payloadTypes, distribution.payloadTypes,
                         maxPayloadBuzz)

\* the count of rows the loops wrote: results.created
synthesizeTemplates ==
    LET distribution == getPatternDistribution(DistributionDays)
        afterX == SynthPlatform(templateWeights, <<"x">>, distribution)
        afterThreads == SynthPlatform(afterX, <<"threads">>, distribution)
    IN /\ templateWeights' = afterThreads
       /\ result' = [updated |-> 0,
                     created |-> 2 * (Len(formats) + Len(hookTypes)
                                        + Len(payloadTypes))]
       /\ call' = [op |-> "synthesizeTemplates"]

\* the rows getCurrentWeights reads, without the condition on the week
CurrentRowsAnyWeek(platform) ==
    LET Current(row) == row.platform = platform
    IN SelectSeq(templateWeights, Current)

\* CurrentRows reading the rows of the week before as well
CurrentRowsFromLastWeek(platform) ==
    LET Current(row) ==
            /\ row.platform = platform
            /\ row.weekStart >= getWeekStart - 7
    IN SelectSeq(templateWeights, Current)

\* the rows getCurrentWeights reads: this platform's, of a week that starts
\* at or after the current week's Monday
CurrentRows(platform) ==
    LET Current(row) ==
            /\ row.platform = platform
            /\ row.weekStart >= getWeekStart
    IN SelectSeq(templateWeights, Current)

RECURSIVE Overlay(_, _)
\* for (const w of weights) if (w.<dim>) table[w.<dim>] = w.weight, over the
\* pairs of a row's <dim> and its weight
Overlay(table, entries) ==
    IF entries = <<>> THEN table
    ELSE LET k == Head(entries).key
             next == IF k = Null \/ k = <<>> THEN table
                     ELSE [x \in DOMAIN table \cup {k} |->
                             IF x = k THEN Head(entries).weight ELSE table[x]]
         IN Overlay(next, Tail(entries))

\* the defaults of 1.0 with the loaded rows' weights applied over them
WeightsOf(weights) ==
    LET byFormat == [i \in DOMAIN weights |->
                        [key |-> weights[i].format, weight |-> weights[i].weight]]
        byHookType == [i \in DOMAIN weights |->
                        [key |-> weights[i].hookType, weight |-> weights[i].weight]]
        byPayloadType == [i \in DOMAIN weights |->
                        [key |-> weights[i].payloadType,
                         weight |-> weights[i].weight]]
    IN [formats |-> Overlay([f \in Range(formats) |-> WeightOne], byFormat),
        hookTypes |-> Overlay([h \in Range(hookTypes) |-> WeightOne], byHookType),
        payloadTypes |->
            Overlay([q \in Range(payloadTypes) |-> WeightOne], byPayloadType)]

getCurrentWeights(platform) == WeightsOf(CurrentRows(platform))

----------------------------------------------------------------------------
(* selectArm *)

NegInfinity == 0 - 1

getTimeBucket(hour) ==
    IF hour >= 5 /\ hour < 7 THEN <<"early_morning">>
    ELSE IF hour >= 7 /\ hour < 9 THEN <<"morning">>
    ELSE IF hour >= 9 /\ hour < 12 THEN <<"late_morning">>
    ELSE IF hour >= 12 /\ hour < 15 THEN <<"afternoon">>
    ELSE IF hour >= 15 /\ hour < 18 THEN <<"evening">>
    ELSE IF hour >= 18 /\ hour < 21 THEN <<"night">>
    ELSE <<"late_night">>

\* getArmStats: the stored alpha, beta, totalReward and pullCount of the
\* arm, or the default prior; it writes nothing
getArmStats(armId) ==
    IF armId \in DOMAIN armPriors
    THEN [armId |-> armId, alpha |-> armPriors[armId].alpha,
          beta |-> armPriors[armId].beta,
          totalReward |-> armPriors[armId].totalReward,
          pullCount |-> armPriors[armId].pullCount]
    ELSE [armId |-> armId, alpha |-> AlphaOne, beta |-> AlphaOne,
          totalReward |-> 0, pullCount |-> 0]

\* the levels a sample is drawn from: the low and the high end of [0, 1]
Samples == {0, 1}

\* the random streams: the draws of successive samples, repeating.  A
\* stream is low up to some draw and high from it on, so that the first
\* highest sample falls on any of the first four combinations.
Seeds == {[i \in 0..3 |-> IF i >= k THEN 1 ELSE 0] : k \in 0..4}

\* the i-th draw of the random stream `seed`
Draw(seed, i) == seed[(i - 1) % Cardinality(DOMAIN seed)]

\* sampleBeta: gammaA / (gammaA + gammaB) lies in [0, 1]; it is NaN only as
\* 0 / 0, when both shapes are 0
sampleBeta(alpha, beta, draw) ==
    IF alpha = 0 /\ beta = 0 THEN NaN ELSE draw

\* weights.formats[format] || 1.0
WeightOrOne(table, key) ==
    IF key \in DOMAIN table /\ table[key] # 0 THEN table[key] ELSE WeightOne

\* sample > bestScore
GreaterThan(sample, bestScore) == sample # NaN /\ sample > bestScore

\* the combinations in the order of the three nested loops
Combinations(fs, hs, ts) ==
    [i \in 1..(Len(fs) * Len(hs) * Len(ts)) |->
        [format |-> fs[((i - 1) \div (Len(hs) * Len(ts))) + 1],
         hookType |-> hs[(((i - 1) \div Len(ts)) % Len(hs)) + 1],
         topic |-> ts[((i - 1) % Len(ts)) + 1]]]

\* the body of the innermost loop for the i-th combination
SelectStep(best, i, combination, platform, timeBucket, dayOfWeek, weights, seed) ==
    LET arm == Arm(platform, combination.format, combination.hookType,
                   combination.topic, Undefined, timeBucket, dayOfWeek,
                   Undefined)
        armId == getArmId(arm)
        stats == getArmStats(armId)
        formatWeight == WeightOrOne(weights.formats, combination.format)
        hookWeight == WeightOrOne(weights.hookTypes, combination.hookType)
        \* in units of 1/(AlphaOne * WeightOne * WeightOne)
        adjustedAlpha == stats.alpha * formatWeight * hookWeight
        sample == sampleBeta(adjustedAlpha, stats.beta, Draw(seed, i))
    IN IF GreaterThan(sample, best.bestScore)
       THEN [bestScore |-> sample,
             bestChoice |-> [format |-> combination.format,
                             hookType |-> combination.hookType,
                             topic |-> combination.topic,
                             armId |-> armId]]
       ELSE best

RECURSIVE SelectLoop(_, _, _, _, _, _, _, _)
SelectLoop(best, i, combinations, platform, timeBucket, dayOfWeek, weights, seed) ==
    IF i > Len(combinations) THEN best
    ELSE SelectLoop(SelectStep(best, i, combinations[i], platform, timeBucket,
                               dayOfWeek, weights, seed),
                    i + 1, combinations, platform, timeBucket, dayOfWeek,
                    weights, seed)

\* options.candidateX || config.X
Candidates(option, configured) ==
    IF option.given THEN option.list ELSE configured

\* selectArm(platform, options) at hour `hour` of the day `now`, with the
\* random stream `seed`
selectArm(platform, options, hour, seed) ==
    LET weights == getCurrentWeights(platform)
        fs == Candidates(options.candidateFormats, formats)
        hs == Candidates(options.candidateHooks, hookTypes)
        ts == Candidates(options.candidateTopics, topics)
        dayOfWeek == getDay
        timeBucket == getTimeBucket(hour)
        start == [bestScore |-> NegInfinity,
                  bestChoice |-> [format |-> At(fs, 0), hookType |-> At(hs, 0),
                                  topic |-> At(ts, 0), armId |-> <<>>]]
        end == SelectLoop(start, 1, Combinations(fs, hs, ts), platform,
                          timeBucket, dayOfWeek, weights, seed)
    IN /\ result' = end.bestChoice
       /\ call' = [op |-> "selectArm", platform |-> platform,
                   options |-> options, hour |-> hour, day |-> now]

----------------------------------------------------------------------------
(* Inputs of the arm store's operations *)

\* rewards: below 0, below 5 (normalized < 0.5), 5, above 5, above 10
Rewards == {0 - 15 * RewardScale, 3 * RewardScale, 5 * RewardScale,
            8 * RewardScale, 25 * RewardScale}

\* the arms updateArm is called for: one as injectExternalPriors builds it
\* (every other dimension a wildcard), one as selectArm builds it (on a
\* Sunday, day 0) and one with every dimension set
UpdateArms ==
    { FormatArm(<<"x">>, formats[1]),
      Arm(<<"x">>, formats[1], hookTypes[1], topics[1], Undefined,
          <<"morning">>, 0, Undefined),
      Arm(<<"threads">>, formats[2], hookTypes[1], topics[1], <<"short">>,
          <<"late_night">>, 3, <<"low">>) }

Entry(count, avgBuzz) == [count |-> count, avgBuzz |-> avgBuzz]

\* a distribution as getPatternDistribution returns it, given as sequences of
\* <<key, count, avgBuzz>>
Distribution(fs, hs) ==
    [formats |->
        [k \in {fs[i][1] : i \in 1..Len(fs)} |->
            LET i == CHOOSE i \in 1..Len(fs) : fs[i][1] = k
            IN Entry(fs[i][2], fs[i][3])],
     hookTypes |->
        [k \in {hs[i][1] : i \in 1..Len(hs)} |->
            LET i == CHOOSE i \in 1..Len(hs) : hs[i][1] = k
            IN Entry(hs[i][2], hs[i][3])]]

\* counts below, at and above the threshold of 3; average buzz at the
\* maximum, at half of it and 0; an empty distribution; one whose buzz is 0
Distributions ==
    { Distribution(<<>>, <<>>),
      Distribution(<< <<formats[1], 3, BuzzOne>>, <<formats[2], 2, BuzzOne>> >>,
                   << <<hookTypes[1], 3, 0>> >>),
      Distribution(<< <<formats[1], 3, BuzzOne \div 2>>,
                      <<formats[2], 5, BuzzOne>> >>,
                   << <<hookTypes[1], 2, BuzzOne>> >>),
      Distribution(<< <<formats[1], 2, BuzzOne>> >>,
                   << <<hookTypes[1], 4, 2 * BuzzOne>> >>),
      Distribution(<< <<formats[1], 3, 0>> >>, <<>>) }

\* a distribution with a negative average buzz, which getPatternDistribution
\* never returns
NegativeDistributions ==
    { Distribution(<< <<formats[1], 3, 0 - BuzzOne>>,
                      <<formats[2], 3, BuzzOne>> >>,
                   << <<hookTypes[1], 3, 0 - BuzzOne>> >>) }

\* what extractPattern returns for a post
Pattern(format, hookType, payloadType, tabooFlags, qualityScore) ==
    [format |-> format, hookType |-> hookType, payloadType |-> payloadType,
     tabooFlags |-> tabooFlags, qualityScore |-> qualityScore]

\* quality 0.9, 0.5 and 0.3; no, one and two taboo flags
Classifications ==
    << Pattern(formats[1], hookTypes[1], payloadTypes[1], <<>>,
               (9 * QualityOne) \div 10),
       Pattern(formats[2], hookTypes[2], payloadTypes[1], <<"aori">>,
               QualityOne \div 2),
       Pattern(formats[1], hookTypes[2], payloadTypes[1], <<>>,
               (3 * QualityOne) \div 10),
       Pattern(formats[2], hookTypes[1], payloadTypes[1],
               <<"aori", "kajo_cta">>, (9 * QualityOne) \div 10) >>

\* what the collaborators of minePatterns do for one post: the insert
\* throws on a database error, for instance on a format longer than the
\* column's 32 characters
Outcomes ==
    {[kind |-> "ok", pattern |-> Classifications[i]] : i \in 1..4}
      \cup {[kind |-> "extract_throws", pattern |-> Classifications[1]],
            [kind |-> "insert_throws", pattern |-> Classifications[1]]}

\* the outcomes that are taken for a post: the classification depends on
\* the post's text, and any call can fail
PostOutcomes(postId) ==
    IF postId = 1
    THEN {[kind |-> "ok", pattern |-> Classifications[2]],
          [kind |-> "ok", pattern |-> Classifications[4]]}
    ELSE IF postId = 2
    THEN {[kind |-> "ok", pattern |-> Classifications[1]],
          [kind |-> "extract_throws", pattern |-> Classifications[1]],
          [kind |-> "insert_throws", pattern |-> Classifications[1]]}
    ELSE {[kind |-> "ok", pattern |-> Classifications[1]],
          [kind |-> "ok", pattern |-> Classifications[3]]}

\* the outcomes without a failure and with a quality of 0.5 or more
QuietOutcomes(postId) ==
    {o \in PostOutcomes(postId) :
        /\ o.kind = "ok"
        /\ o.pattern.qualityScore >= QualityOne \div 2}

\* the reward of the post of a selected arm: 8, normalized 0.8
LearnedRewards == {8 * RewardScale}

NotGiven == [given |-> FALSE, list |-> <<>>]
Given(list) == [given |-> TRUE, list |-> list]

\* the calls of selectArm: on x in the early morning without options; on
\* threads late at night with one candidate format; on x in the afternoon
\* with all three lists, the topic not a configured one
Selections ==
    { [platform |-> <<"x">>, hour |-> 6,
       options |-> [candidateFormats |-> NotGiven, candidateHooks |-> NotGiven,
                    candidateTopics |-> NotGiven]],
      [platform |-> <<"threads">>, hour |-> 23,
       options |-> [candidateFormats |-> Given(<<formats[2]>>),
                    candidateHooks |-> NotGiven,
                    candidateTopics |-> NotGiven]],
      [platform |-> <<"x">>, hour |-> 13,
       options |-> [candidateFormats |-> Given(<<formats[2], formats[1]>>),
                    candidateHooks |-> Given(<<hookTypes[2]>>),
                    candidateTopics |-> Given(<< <<"kenko_kanri">> >>)]] }

----------------------------------------------------------------------------
(* The arm store under updateArm and injectExternalPriors *)

\* the scheduled posts at the start: pending, never tried and due one after
\* the other, the last of them now; every third is a post for Threads
DueScheduledPosts ==
    [id \in 1..NumScheduled |->
        [id |-> id,
         platform |-> IF id % 3 = 0 THEN <<"threads">> ELSE <<"x">>,
         scheduledFor |-> 0 - (NumScheduled - id),
         status |-> "pending",
         retryCount |-> 0]]

Init ==
    /\ armPriors = <<>>
    /\ patterns = <<>>
    /\ templateWeights = <<>>
    /\ now = 0
    /\ publishedPosts = <<>>
    /\ metrics = <<>>
    /\ learnLog = <<>>
    /\ tasks = [t \in 1..NumTasks |-> [pc |-> "idle"]]
    /\ scheduledPosts = DueScheduledPosts
    /\ learningState = <<>>
    /\ platformPosts = [id \in 1..NumScheduled |-> 0]
    /\ call = [op |-> "none"]
    /\ result = <<>>
    /\ calls = 0

UpdateArm ==
    \E arm \in UpdateArms, reward \in Rewards :
        /\ calls < MaxCalls
        /\ updateArm(getArmId(arm), arm.platform, reward)
        /\ calls' = calls + 1
        /\ UNCHANGED <<patterns, templateWeights, now, result>>
        /\ UNCHANGED learning
        /\ UNCHANGED tasks
        /\ UNCHANGED publishing

InjectExternalPriors ==
    \E platform \in Platforms, distribution \in Distributions :
        /\ calls < MaxCalls
        /\ injectExternalPriors(platform, distribution)
        /\ calls' = calls + 1
        /\ UNCHANGED <<patterns, templateWeights, now, result>>
        /\ UNCHANGED learning
        /\ UNCHANGED tasks
        /\ UNCHANGED publishing

InjectNegativePriors ==
    \E platform \in Platforms, distribution \in NegativeDistributions :
        /\ calls < MaxCalls
        /\ injectExternalPriors(platform, distribution)
        /\ calls' = calls + 1
        /\ UNCHANGED <<patterns, templateWeights, now, result>>
        /\ UNCHANGED learning
        /\ UNCHANGED tasks
        /\ UNCHANGED publishing

NextBandit == UpdateArm \/ InjectExternalPriors

SpecBandit == Init /\ [][NextBandit]_vars

NextBanditAny == UpdateArm \/ InjectExternalPriors \/ InjectNegativePriors

SpecBanditAny == Init /\ [][NextBanditAny]_vars

----------------------------------------------------------------------------
(* The pattern and weight stores under minePatterns and synthesizeTemplates *)

MinePatterns ==
    \E outcomes \in [Range(unmined) -> Outcomes] :
        /\ calls < MaxCalls
        /\ \A id \in Range(unmined) : outcomes[id] \in PostOutcomes(id)
        /\ minePatterns(outcomes)
        /\ calls' = calls + 1
        /\ UNCHANGED <<armPriors, templateWeights, now>>
        /\ UNCHANGED learning
        /\ UNCHANGED tasks
        /\ UNCHANGED publishing

SynthesizeTemplates ==
    /\ calls < MaxCalls
    /\ synthesizeTemplates
    /\ calls' = calls + 1
    /\ UNCHANGED <<armPriors, patterns, now>>
    /\ UNCHANGED learning
    /\ UNCHANGED tasks
    /\ UNCHANGED publishing

\* a day passes
AdvanceClock ==
    /\ now < MaxDay
    /\ now' = now + 1
    /\ call' = [op |-> "tick"]
    /\ UNCHANGED <<armPriors, patterns, templateWeights, result, calls>>
    /\ UNCHANGED learning
    /\ UNCHANGED tasks
    /\ UNCHANGED publishing

NextTemplates == MinePatterns \/ SynthesizeTemplates \/ AdvanceClock

SpecTemplates == Init /\ [][NextTemplates]_vars

----------------------------------------------------------------------------
(* selectArm over the stores, and the learning of what it selected *)

SelectArm ==
    \E selection \in Selections, seed \in Seeds :
        /\ calls < MaxCalls
        /\ selectArm(selection.platform, selection.options, selection.hour,
                     seed)
        /\ calls' = calls + 1
        /\ UNCHANGED <<armPriors, patterns, templateWeights, now>>
        /\ UNCHANGED learning
        /\ UNCHANGED tasks
        /\ UNCHANGED publishing

\* minePatterns when no call fails
MineQuietly ==
    \E outcomes \in [Range(unmined) -> Outcomes] :
        /\ calls < MaxCalls
        /\ \A id \in Range(unmined) : outcomes[id] \in QuietOutcomes(id)
        /\ minePatterns(outcomes)
        /\ calls' = calls + 1
        /\ UNCHANGED <<armPriors, templateWeights, now>>
        /\ UNCHANGED learning
        /\ UNCHANGED tasks
        /\ UNCHANGED publishing

\* runLearningUpdate's call of updateArm for the post of the last selection
LearnSelected ==
    \E reward \in LearnedRewards :
        /\ call.op = "selectArm"
        /\ calls < MaxCalls
        /\ updateArm(result.armId, call.platform, reward)
        /\ calls' = calls + 1
        /\ UNCHANGED <<patterns, templateWeights, now, result>>
        /\ UNCHANGED learning
        /\ UNCHANGED tasks
        /\ UNCHANGED publishing

NextSelect ==
    \/ SelectArm
    \/ LearnSelected
    \/ MineQuietly
    \/ SynthesizeTemplates
    \/ AdvanceClock

SpecSelect == Init /\ [][NextSelect]_vars

Next ==
    \/ UpdateArm
    \/ InjectExternalPriors
    \/ InjectNegativePriors
    \/ MinePatterns
    \/ SynthesizeTemplates
    \/ AdvanceClock
    \/ SelectArm
    \/ LearnSelected

Spec == Init /\ [][Next]_vars

----------------------------------------------------------------------------
(* Claims on the arm store *)

\* C1: after any sequence of updateArm calls (any reward) and
\* injectExternalPriors calls (average buzz not negative), every arm row has
\* alpha > 0 and beta > 0.
AlphaBetaPositive ==
    \A id \in DOMAIN armPriors :
        armPriors[id].alpha > 0 /\ armPriors[id].beta > 0

\* an arm that priors were injected into and that was updated with a reward
\* above 10 and with one below 0
WitnessAlphaBetaPositive ==
    /\ call.op = "updateArm"
    /\ call.reward < 0
    /\ armPriors[call.armId].source = "external_patterns"
    /\ armPriors[call.armId].pullCount = 2
    /\ armPriors[call.armId].totalReward = 10 * RewardScale

\* the step is the call of updateArm that call' records
IsUpdateArmStep ==
    /\ call'.op = "updateArm"
    /\ updateArm(call'.armId, call'.platform, call'.reward)

\* the step is the call of injectExternalPriors that call' records
IsInjectStep ==
    /\ call'.op = "injectExternalPriors"
    /\ injectExternalPriors(call'.platform, call'.distribution)

\* the row of an armId before a call: the stored one, or the default prior
RowOrDefault(id) ==
    IF id \in DOMAIN armPriors THEN armPriors[id]
    ELSE [alpha |-> AlphaOne, beta |-> AlphaOne, totalReward |-> 0,
          pullCount |-> 0]

\* clamp(reward / 10, 0, 1) in units of 1/AlphaOne
Clamped(reward) ==
    IF reward < 0 THEN 0
    ELSE IF reward > RewardDivisor * RewardScale THEN AlphaOne
    ELSE reward

\* C2: updateArm(armId, platform, reward) with n = clamp(reward/10, 0, 1)
\* leaves alpha = a0 + n, beta = b0 + (1 - n), totalReward = t0 + reward and
\* pullCount = p0 + 1, from the stored row or from (1, 1, 0, 0); alpha's
\* increase exceeds beta's exactly when n > 0.5, and beta's exceeds alpha's
\* exactly when n < 0.5.
UpdateAddsReward ==
    [][IsUpdateArmStep =>
         LET id == call'.armId
             r == call'.reward
             n == Clamped(r)
             before == RowOrDefault(id)
             after == armPriors'[id]
         IN /\ after.alpha = before.alpha + n
            /\ after.beta = before.beta + (AlphaOne - n)
            /\ after.totalReward = before.totalReward + r
            /\ after.pullCount = before.pullCount + 1
            /\ (after.alpha - before.alpha > after.beta - before.beta)
                  <=> (2 * n > AlphaOne)
            /\ (after.beta - before.beta > after.alpha - before.alpha)
                  <=> (2 * n < AlphaOne)]_vars

\* a stored row was updated with a reward of 8 (n = 0.8)
WitnessUpdateAddsReward ==
    /\ call.op = "updateArm"
    /\ call.reward = 8 * RewardScale
    /\ armPriors[call.armId].pullCount = 2

\* C3: injectExternalPriors never decreases the alpha of a stored arm, for
\* any stored alpha and any distribution (a negative average buzz included).
InjectNeverLowersAlpha ==
    [][IsInjectStep =>
         \A id \in DOMAIN armPriors :
            /\ id \in DOMAIN armPriors'
            /\ armPriors'[id].alpha >= armPriors[id].alpha]_vars

\* priors were injected for a format whose arm held an alpha above the
\* computed prior 1 + 2 * priorBoost, here with priorBoost <= 0
WitnessInjectNeverLowersAlpha ==
    /\ call.op = "injectExternalPriors"
    /\ formats[1] \in DOMAIN call.distribution.formats
    /\ call.distribution.formats[formats[1]].count >= MinInjectSamples
    /\ call.distribution.formats[formats[1]].avgBuzz <= 0
    /\ LET id == getArmId(FormatArm(call.platform, formats[1]))
       IN /\ id \in DOMAIN armPriors
          /\ armPriors[id].alpha > AlphaOne
          /\ armPriors[id].source = "external_patterns"

\* the arm of a value is left as it was: the same row, or still no row
ArmUntouched(id) ==
    /\ (id \in DOMAIN armPriors) <=> (id \in DOMAIN armPriors')
    /\ id \in DOMAIN armPriors => armPriors'[id] = armPriors[id]

\* C4: injectExternalPriors given a format or hookType whose count is below
\* 3 neither creates nor modifies the arm row of that value.
InjectSkipsBelowThree ==
    [][IsInjectStep =>
         LET p == call'.platform
             d == call'.distribution
         IN /\ \A k \in DOMAIN d.formats :
                   d.formats[k].count < 3 => ArmUntouched(getArmId(FormatArm(p, k)))
            /\ \A k \in DOMAIN d.hookTypes :
                   d.hookTypes[k].count < 3 => ArmUntouched(getArmId(HookArm(p, k)))]_vars

\* priors were injected from a distribution with a format seen twice, whose
\* arm has a row, and a format seen 3 times or more
WitnessInjectSkipsBelowThree ==
    /\ call.op = "injectExternalPriors"
    /\ \E k \in DOMAIN call.distribution.formats :
          /\ call.distribution.formats[k].count = 2
          /\ getArmId(FormatArm(call.platform, k)) \in DOMAIN armPriors
    /\ \E k \in DOMAIN call.distribution.formats :
          call.distribution.formats[k].count >= 3

\* dimension values an arm may carry: not set, or one value
ArmTuples ==
    { Arm(p, f, h, t, l, b, d, e) :
        p \in Platforms,
        f \in {Undefined, formats[1]},
        h \in {Undefined, hookTypes[1]},
        t \in {Undefined, topics[1]},
        l \in {Undefined, <<"short">>},
        b \in {Undefined, <<"morning">>},
        d \in {NoDay, 0, 6},
        e \in {Undefined, <<"low">>} }

\* the columns a dimension tuple is to come back as: its values, NULL for a
\* dimension that is not set
ColumnsOf(arm) ==
    [format |-> Column(arm.format), hookType |-> Column(arm.hookType),
     topic |-> Column(arm.topic), lengthBucket |-> Column(arm.lengthBucket),
     timeBucket |-> Column(arm.timeBucket), dayOfWeek |-> arm.dayOfWeek,
     emojiDensity |-> Column(arm.emojiDensity)]

RowDimensions(row) ==
    [format |-> row.format, hookType |-> row.hookType, topic |-> row.topic,
     lengthBucket |-> row.lengthBucket, timeBucket |-> row.timeBucket,
     dayOfWeek |-> row.dayOfWeek, emojiDensity |-> row.emojiDensity]

\* C7: splitting getArmId(tuple) as updateArm's insert does recovers every
\* dimension that is set and gives NULL for every wildcard, so two tuples
\* share an armId only when they are the same tuple.  The rows updateArm
\* inserted are checked in every state; the tuples of ArmTuples, a property
\* of the two functions alone, once, in the initial state.
ArmIdRoundTrip ==
    /\ \A id \in DOMAIN armPriors :
          armPriors[id].source = "self_learning" =>
              \A arm \in UpdateArms :
                  getArmId(arm) = id =>
                      RowDimensions(armPriors[id]) = ColumnsOf(arm)
    /\ call.op = "none" =>
          /\ \A arm \in ArmTuples :
                /\ Len(Split(getArmId(arm))) = 8
                /\ RowDimensions(NewArmRow(getArmId(arm), arm.platform, 0))
                      = ColumnsOf(arm)
          /\ Cardinality({getArmId(arm) : arm \in ArmTuples})
                = Cardinality(ArmTuples)

\* updateArm inserted the row of an arm with every dimension set
WitnessArmIdRoundTrip ==
    \E id \in DOMAIN armPriors :
        /\ armPriors[id].source = "self_learning"
        /\ armPriors[id].emojiDensity = <<"low">>
        /\ armPriors[id].dayOfWeek = 3
        /\ \E arm \in UpdateArms : getArmId(arm) = id

----------------------------------------------------------------------------
(* Claims on the template weights *)

\* the rows of the current week for a platform and a value of a dimension
RowsOfWeek(platform, dimension, value) ==
    {i \in DOMAIN templateWeights :
        /\ templateWeights[i].weekStart = getWeekStart
        /\ templateWeights[i].platform = platform
        /\ templateWeights[i][dimension] = value}

\* every value of `configured` has a numeric weight in `table`, 1.0 when the
\* current week has no row for it
WeightsCover(table, platform, dimension, configured) ==
    \A v \in Range(configured) :
        /\ v \in DOMAIN table
        /\ table[v] \in Nat
        /\ RowsOfWeek(platform, dimension, v) = {} => table[v] = WeightOne

\* C5: for either platform and any content of the weight store,
\* getCurrentWeights returns a numeric weight for every configured format,
\* hookType and payloadType, and 1.0 for every value that has no row for the
\* current week.
CurrentWeightsCoverConfig ==
    \A platform \in Platforms :
        LET weights == getCurrentWeights(platform)
        IN /\ WeightsCover(weights.formats, platform, "format", formats)
           /\ WeightsCover(weights.hookTypes, platform, "hookType", hookTypes)
           /\ WeightsCover(weights.payloadTypes, platform, "payloadType",
                           payloadTypes)

\* the store holds rows of last week with weights other than 1.0 and none
\* of the current week
WitnessCurrentWeightsCoverConfig ==
    /\ \E i \in DOMAIN templateWeights :
          /\ templateWeights[i].weekStart < getWeekStart
          /\ templateWeights[i].format = formats[1]
          /\ templateWeights[i].weight = 2 * WeightOne
    /\ \A i \in DOMAIN templateWeights :
          templateWeights[i].weekStart < getWeekStart

\* the step is the call of minePatterns that call' records
IsMineStep ==
    /\ call'.op = "minePatterns"
    /\ minePatterns(call'.outcomes)

\* the classification of a post returned a pattern that passes the filter
Accepted(outcome) ==
    /\ outcome.kind # "extract_throws"
    /\ outcome.pattern.qualityScore >= QualityOne \div 2
    /\ Len(outcome.pattern.tabooFlags) < 2

\* the classification of a post returned a pattern that fails the filter
Rejected(outcome) ==
    /\ outcome.kind # "extract_throws"
    /\ ~(/\ outcome.pattern.qualityScore >= QualityOne \div 2
         /\ Len(outcome.pattern.tabooFlags) < 2)

\* the rows the step appended to the patterns
WrittenPatterns == {i \in DOMAIN patterns' : i > Len(patterns)}

PersistedFor(postId) ==
    \E i \in WrittenPatterns : patterns'[i].externalPostId = postId

WrittenPassFilter ==
    \A i \in WrittenPatterns :
        /\ patterns'[i].qualityScore >= QualityOne \div 2
        /\ Len(patterns'[i].tabooFlags) < 2

\* C8 as stated: a processed post gets a pattern if and only if its
\* classification returns qualityScore >= 0.5 and fewer than 2 taboo flags,
\* rejected posts are counted in skipped, accepted ones in extracted, and
\* every written pattern passes the filter.
MinePersistsIffAccepted ==
    [][IsMineStep =>
        LET posts == Range(call'.posts)
        IN /\ \A id \in posts :
                 PersistedFor(id) <=> Accepted(call'.outcomes[id])
           /\ result'.skipped
                 = Cardinality({id \in posts : Rejected(call'.outcomes[id])})
           /\ result'.extracted
                 = Cardinality({id \in posts : Accepted(call'.outcomes[id])})
           /\ WrittenPassFilter]_vars

\* C8: a processed post gets a pattern if and only if its classification
\* returns qualityScore >= 0.5 and fewer than 2 taboo flags and the insert
\* of the pattern does not fail; rejected posts are counted in skipped, the
\* posts that got a pattern in extracted, and every written pattern passes
\* the filter.
MinePersistsIffAcceptedAndInserted ==
    [][IsMineStep =>
        LET posts == Range(call'.posts)
            Stored(id) == /\ Accepted(call'.outcomes[id])
                          /\ call'.outcomes[id].kind # "insert_throws"
        IN /\ \A id \in posts : PersistedFor(id) <=> Stored(id)
           /\ result'.skipped
                 = Cardinality({id \in posts : Rejected(call'.outcomes[id])})
           /\ result'.extracted = Cardinality({id \in posts : Stored(id)})
           /\ result'.extracted = Cardinality(WrittenPatterns)
           /\ WrittenPassFilter]_vars

\* a run that stored a pattern with one taboo flag and a quality of 0.5,
\* skipped a post for its quality and failed to insert the pattern of a
\* third
WitnessMinePersists ==
    /\ call.op = "minePatterns"
    /\ result.extracted = 1
    /\ result.skipped = 1
    /\ Len(result.errors) = 1
    /\ \E id \in Range(call.posts) : call.outcomes[id].kind = "insert_throws"
    /\ \E id \in Range(call.posts) :
          /\ call.outcomes[id].kind = "ok"
          /\ call.outcomes[id].pattern.qualityScore < QualityOne \div 2
    /\ \E i \in DOMAIN patterns :
          /\ Len(patterns[i].tabooFlags) = 1
          /\ patterns[i].qualityScore = QualityOne \div 2

\* the weight synthesizeTemplates wrote for a format on a platform
WrittenFormatWeight(platform, format) ==
    LET i == CHOOSE i \in RowsOfWeek(platform, "format", format) : TRUE
    IN templateWeights[i].weight

\* the highest avgBuzz of a table of the distribution
MaxAvgBuzz(table) == MaxOf(BuzzValues(table), 0)

\* C9 as stated: after synthesizeTemplates, a configured format whose
\* avgBuzz is the maximum over all formats has the weight 2.0 and a
\* configured format with no samples has the weight 1.0.
MaxBuzzFormatGetsTwo ==
    call.op = "synthesizeTemplates" =>
        LET table == getPatternDistribution(DistributionDays).formats
        IN \A platform \in Platforms, f \in Range(formats) :
              /\ RowsOfWeek(platform, "format", f) # {}
              /\ (f \in DOMAIN table /\ table[f].avgBuzz = MaxAvgBuzz(table))
                    => WrittenFormatWeight(platform, f) = 2 * WeightOne
              /\ f \notin DOMAIN table
                    => WrittenFormatWeight(platform, f) = WeightOne

\* C9: after synthesizeTemplates, a configured format observed at least
\* twice whose avgBuzz is the maximum over all formats, and at least 0.01,
\* has the weight 2.0, and a configured format with no samples has the
\* weight 1.0.
MaxBuzzFormatSeenTwiceGetsTwo ==
    call.op = "synthesizeTemplates" =>
        LET table == getPatternDistribution(DistributionDays).formats
        IN \A platform \in Platforms, f \in Range(formats) :
              /\ RowsOfWeek(platform, "format", f) # {}
              /\ (/\ f \in DOMAIN table
                  /\ table[f].count >= 2
                  /\ table[f].avgBuzz = MaxAvgBuzz(table)
                  /\ table[f].avgBuzz >= BuzzFloor)
                    => WrittenFormatWeight(platform, f) = 2 * WeightOne
              /\ f \notin DOMAIN table
                    => WrittenFormatWeight(platform, f) = WeightOne

\* synthesizeTemplates ran on two patterns of the first format and none of
\* the second
WitnessMaxBuzzFormat ==
    /\ call.op = "synthesizeTemplates"
    /\ LET table == getPatternDistribution(DistributionDays).formats
       IN /\ formats[1] \in DOMAIN table
          /\ table[formats[1]].count = 2
          /\ formats[2] \notin DOMAIN table
    /\ WrittenFormatWeight(<<"threads">>, formats[1]) = 2 * WeightOne
    /\ WrittenFormatWeight(<<"threads">>, formats[2]) = WeightOne

\* C10: every weight synthesizeTemplates writes lies in [0.5, 2.0], and it
\* is 1.0 for every value observed fewer than 2 times.
WeightsInRange ==
    /\ \A i \in DOMAIN templateWeights :
          /\ templateWeights[i].weight >= WeightOne \div 2
          /\ templateWeights[i].weight <= 2 * WeightOne
          /\ templateWeights[i].sampleCount < 2
                => templateWeights[i].weight = WeightOne
    /\ call.op = "synthesizeTemplates" =>
          LET distribution == getPatternDistribution(DistributionDays)
              Count(table, v) == IF v \in DOMAIN table THEN table[v].count ELSE 0
          IN \A i \in DOMAIN templateWeights :
                templateWeights[i].weekStart = getWeekStart =>
                    templateWeights[i].sampleCount
                        = IF templateWeights[i].format # Null
                          THEN Count(distribution.formats,
                                     templateWeights[i].format)
                          ELSE IF templateWeights[i].hookType # Null
                          THEN Count(distribution.hookTypes,
                                     templateWeights[i].hookType)
                          ELSE Count(distribution.payloadTypes,
                                     templateWeights[i].payloadType)

\* the store holds a weight below 1.0 of a value seen twice, the weight 2.0,
\* and the weight 1.0 of a value seen once
WitnessWeightsInRange ==
    /\ \E i \in DOMAIN templateWeights :
          /\ templateWeights[i].sampleCount = 2
          /\ templateWeights[i].weight < WeightOne
    /\ \E i \in DOMAIN templateWeights :
          templateWeights[i].weight = 2 * WeightOne
    /\ \E i \in DOMAIN templateWeights :
          /\ templateWeights[i].sampleCount = 1
          /\ templateWeights[i].avgBuzzScore > 0
          /\ templateWeights[i].weight = WeightOne

----------------------------------------------------------------------------
(* Claims on selectArm *)

Member(v, list) == \E i \in DOMAIN list : list[i] = v

\* C6: for any arm store, any weights and any samples, selectArm over lists
\* that are not empty returns a format, hookType and topic of the candidate
\* (or configured) lists and an armId of exactly 8 segments: the platform,
\* the returned format, hookType and topic, "*", the current time bucket, the
\* current day of the week and "*".
SelectArmWellFormed ==
    call.op = "selectArm" =>
        /\ Member(result.format,
                  Candidates(call.options.candidateFormats, formats))
        /\ Member(result.hookType,
                  Candidates(call.options.candidateHooks, hookTypes))
        /\ Member(result.topic,
                  Candidates(call.options.candidateTopics, topics))
        /\ Len(Split(result.armId)) = 8
        /\ Split(result.armId)
              = << call.platform, result.format, result.hookType,
                   result.topic, Star, getTimeBucket(call.hour),
                   toString(getDay), Star >>

\* selectArm, under weights of the current week other than 1.0, chose
\* another combination than the first of its candidate lists
WitnessSelectArmWellFormed ==
    /\ call.op = "selectArm"
    /\ call.options.candidateTopics.given
    /\ result.format # call.options.candidateFormats.list[1]
    /\ \E i \in DOMAIN templateWeights :
          /\ templateWeights[i].weekStart = getWeekStart
          /\ templateWeights[i].weight > WeightOne

----------------------------------------------------------------------------
(* The reward model *)

\* the integer parts of e^1, e^2, ..., e^15
ExpFloor ==
    << 2, 7, 20, 54, 148, 403, 1096, 2980, 8103, 22026, 59874, 162754,
       442413, 1202604, 3269017 >>

\* Math.log(n) for an integer n >= 1, in units of 1/RewardScale and rounded
\* down: RewardScale * ln(n) >= k exactly when n^RewardScale >= e^k, and
\* e^k is not an integer for k >= 1
log(n) ==
    Cardinality({k \in DOMAIN ExpFloor : ExpFloor[k] < Power(n, RewardScale)})

\* penalties: the flags that are set
PenaltyFlags == {"duplicate", "lowQuality", "overPosting"}

\* the reward after the three `if (penalties.x) reward -= ...`
Penalized(reward, penalties) ==
    reward - (IF "duplicate" \in penalties THEN 2 * RewardScale ELSE 0)
           - (IF "lowQuality" \in penalties THEN RewardScale ELSE 0)
           - (IF "overPosting" \in penalties THEN RewardScale \div 2 ELSE 0)

\* calculateReward that returns the penalized reward as it is
calculateRewardNoFloor(impressions24h, penalties) ==
    Penalized(log(1 + impressions24h), penalties)

\* calculateReward with Math.abs in the place of Math.max(0, ...)
calculateRewardAbs(impressions24h, penalties) ==
    LET reward == Penalized(log(1 + impressions24h), penalties)
    IN IF reward < 0 THEN 0 - reward ELSE reward

calculateReward(impressions24h, penalties) ==
    Max(0, Penalized(log(1 + impressions24h), penalties))

\* impression counts: the small ones, and some of three and four digits
Impressions == 0..MaxImpressions \cup {150, 1000, 1800}

CalculateReward ==
    \E impressions24h \in Impressions, penalties \in SUBSET PenaltyFlags :
        /\ call' = [op |-> "calculateReward", impressions |-> impressions24h,
                    penalties |-> penalties]
        /\ result' = calculateReward(impressions24h, penalties)
        /\ UNCHANGED <<armPriors, patterns, templateWeights, now, calls>>
        /\ UNCHANGED learning
        /\ UNCHANGED tasks
        /\ UNCHANGED publishing

NextReward == CalculateReward

SpecReward == Init /\ [][NextReward]_vars

\* C11: calculateReward never returns a value below 0, for any impression
\* count that is not negative and any subset of the three penalties, and it
\* returns 0 for 0 impressions.
RewardNeverNegative ==
    call.op = "calculateReward" =>
        /\ result >= 0
        /\ call.impressions = 0 => result = 0

\* calculateReward was called with 0 impressions and all three penalties
WitnessRewardNeverNegative ==
    /\ call.op = "calculateReward"
    /\ call.impressions = 0
    /\ call.penalties = PenaltyFlags
    /\ result = 0

\* C12: for any fixed set of penalties calculateReward does not decrease
\* when the impressions grow: a call returns at least what the same
\* penalties give for every lower impression count.
RewardMonotone ==
    call.op = "calculateReward" =>
        \A lower \in Impressions :
            lower <= call.impressions =>
                calculateReward(lower, call.penalties) <= result

\* calculateReward was called with penalties that bring the reward of a
\* lower impression count to 0 and leave this one above 0
WitnessRewardMonotone ==
    /\ call.op = "calculateReward"
    /\ call.penalties = {"duplicate", "overPosting"}
    /\ result > 0
    /\ \E lower \in Impressions :
          /\ 0 < lower
          /\ lower < call.impressions
          /\ calculateReward(lower, call.penalties) = 0
          /\ calculateReward(lower, {}) > 0

----------------------------------------------------------------------------
(* The buzz score of a harvested tweet *)

LogScale == 16

\* the integer parts of e^(1/16), e^(2/16), ..., e^(123/16)
ExpSixteenths ==
    << 1, 1, 1, 1, 1, 1, 1, 1, 1, 1, 1, 2, 2, 2, 2, 2, 2, 3, 3, 3, 3,
       3, 4, 4, 4, 5, 5, 5, 6, 6, 6, 7, 7, 8, 8, 9, 10, 10, 11, 12, 12,
       13, 14, 15, 16, 17, 18, 20, 21, 22, 24, 25, 27, 29, 31, 33, 35,
       37, 39, 42, 45, 48, 51, 54, 58, 61, 65, 70, 74, 79, 84, 90, 95,
       102, 108, 115, 123, 130, 139, 148, 157, 168, 179, 190, 202, 215,
       229, 244, 260, 277, 295, 314, 334, 356, 378, 403, 429, 457, 486,
       518, 551, 586, 624, 665, 708, 753, 802, 854, 909, 967, 1030, 1096,
       1167, 1242, 1322, 1408, 1498, 1595, 1698, 1808, 1924, 2048, 2180 >>

\* Math.log(n) for an integer n >= 1, in units of 1/LogScale and rounded
\* down: e^(k/16) is not an integer for k >= 1
logFine(n) == Cardinality({k \in DOMAIN ExpSixteenths : ExpSixteenths[k] < n})

\* a quotient of two numbers, before the division
Quotient(num, den) == [num |-> num, den |-> den]

\* Number.isFinite of a quotient: x / 0 is Infinity or NaN
IsFinite(q) == q.den # 0

\* q >= 0 and p < q, for finite quotients with a positive divisor
NotNegative(q) == q.num >= 0
LessThan(p, q) == p.num * q.den < q.num * p.den

\* a tweet aged ageHalfHours half hours when it is scored
Tweet(likeCount, repostCount, replyCount, quoteCount, ageHalfHours, followersCount) ==
    [likeCount |-> likeCount, repostCount |-> repostCount,
     replyCount |-> replyCount, quoteCount |-> quoteCount,
     ageHalfHours |-> ageHalfHours, followersCount |-> followersCount]

\* rawEngagement, in halves
rawEngagement(tweet) ==
    2 * tweet.likeCount + 4 * tweet.repostCount + 3 * tweet.replyCount
        + 5 * tweet.quoteCount

\* calculateBuzzScore with the age as it is, not Math.max(0.5, age)
calculateBuzzScoreAnyAge(tweet) ==
    LET ageHours == tweet.ageHalfHours
    IN [velocity |-> Quotient(rawEngagement(tweet), ageHours),
        buzzScore |-> Quotient(rawEngagement(tweet) * LogScale,
                               ageHours * logFine(10 + tweet.followersCount))]

\* velocity = rawEngagement / ageHours and
\* buzzScore = velocity / Math.log(10 + followersCount); rawEngagement and
\* ageHours are in halves, the logarithm in units of 1/LogScale
calculateBuzzScore(tweet) ==
    LET ageHours == Max(1, tweet.ageHalfHours)
    IN [velocity |-> Quotient(rawEngagement(tweet), ageHours),
        buzzScore |-> Quotient(rawEngagement(tweet) * LogScale,
                               ageHours * logFine(10 + tweet.followersCount))]

\* ages: just posted, half an hour, an hour, two days
Ages == {0, 1, 2, 96}

Followers == {0, 1, 5, 10, 1000}

Tweets ==
    { Tweet(l, rp, r, q, a, f) :
        l \in 0..MaxCount, rp \in 0..MaxCount, r \in 0..MaxCount,
        q \in 0..MaxCount, a \in Ages, f \in Followers }

CalculateBuzzScore ==
    \E tweet \in Tweets :
        /\ call' = [op |-> "calculateBuzzScore", tweet |-> tweet]
        /\ result' = calculateBuzzScore(tweet)
        /\ UNCHANGED <<armPriors, patterns, templateWeights, now, calls>>
        /\ UNCHANGED learning
        /\ UNCHANGED tasks
        /\ UNCHANGED publishing

NextBuzz == CalculateBuzzScore

SpecBuzz == Init /\ [][NextBuzz]_vars

\* the tweet with twice the followers
DoubledFollowers(tweet) ==
    [tweet EXCEPT !.followersCount = 2 * tweet.followersCount]

\* C13 as stated: for all counts of likes, reposts, replies, quotes and
\* followers that are not negative the buzz score is not negative and
\* finite, and the same tweet with twice the followers has a strictly lower
\* buzz score.
BuzzDampedByFollowers ==
    call.op = "calculateBuzzScore" =>
        /\ IsFinite(result.buzzScore)
        /\ NotNegative(result.buzzScore)
        /\ LessThan(calculateBuzzScore(DoubledFollowers(call.tweet)).buzzScore,
                    result.buzzScore)

\* C13: for all counts that are not negative the buzz score is not negative
\* and finite; the same tweet with twice the followers has a strictly lower
\* buzz score when it has some engagement and at least one follower, and
\* the same buzz score otherwise.
BuzzDampedWhenEngaged ==
    call.op = "calculateBuzzScore" =>
        LET doubled == calculateBuzzScore(DoubledFollowers(call.tweet)).buzzScore
        IN /\ IsFinite(result.buzzScore)
           /\ NotNegative(result.buzzScore)
           /\ IsFinite(doubled)
           /\ IF rawEngagement(call.tweet) > 0 /\ call.tweet.followersCount > 0
              THEN LessThan(doubled, result.buzzScore)
              ELSE /\ ~LessThan(doubled, result.buzzScore)
                   /\ ~LessThan(result.buzzScore, doubled)

\* a tweet with one follower and one reply, scored two days after it was
\* posted
WitnessBuzzDamped ==
    /\ call.op = "calculateBuzzScore"
    /\ call.tweet.followersCount = 1
    /\ call.tweet.ageHalfHours = 96
    /\ rawEngagement(call.tweet) = 3
    /\ LessThan(calculateBuzzScore(DoubledFollowers(call.tweet)).buzzScore,
                result.buzzScore)

----------------------------------------------------------------------------
(* Claims on selectArm and the arm store *)

\* the step is a call of selectArm
IsSelectStep ==
    /\ call'.op = "selectArm"
    /\ calls' = calls + 1

\* C14: an arm is created on its first selection: after selectArm returns
\* an armId that had no row in the arm store, the store holds a row for
\* that armId with alpha = 1 and beta = 1.
SelectArmCreatesArm ==
    [][(IsSelectStep /\ result'.armId \notin DOMAIN armPriors) =>
            /\ result'.armId \in DOMAIN armPriors'
            /\ armPriors'[result'.armId].alpha = AlphaOne
            /\ armPriors'[result'.armId].beta = AlphaOne]_vars

\* selectArm after calls of injectExternalPriors, and the learning of what
\* it selected
NextInjectSelect ==
    \/ InjectExternalPriors
    \/ SelectArm
    \/ LearnSelected

SpecInjectSelect == Init /\ [][NextInjectSelect]_vars

\* the arm a call of selectArm samples for a combination
SampledArm(combination) ==
    Arm(call.platform, combination.format, combination.hookType,
        combination.topic, Undefined, getTimeBucket(call.hour), getDay,
        Undefined)

\* the alpha external patterns gave the arm, or 0 when they gave it none
InjectedAlpha(arm) ==
    LET armId == getArmId(arm)
    IN IF /\ armId \in DOMAIN armPriors
          /\ armPriors[armId].source = "external_patterns"
       THEN armPriors[armId].alpha
       ELSE 0

\* C15: after injectExternalPriors raised the alpha of a format or of a
\* hookType on a platform, selectArm on that platform samples every
\* combination with that format or hookType with an alpha that is at least
\* the injected one.
SelectUsesInjectedPriors ==
    call.op = "selectArm" =>
        LET combinations ==
                Combinations(Candidates(call.options.candidateFormats, formats),
                             Candidates(call.options.candidateHooks, hookTypes),
                             Candidates(call.options.candidateTopics, topics))
        IN \A i \in DOMAIN combinations :
              LET stats == getArmStats(getArmId(SampledArm(combinations[i])))
              IN /\ stats.alpha
                      >= InjectedAlpha(FormatArm(call.platform,
                                                 combinations[i].format))
                 /\ stats.alpha
                      >= InjectedAlpha(HookArm(call.platform,
                                               combinations[i].hookType))

----------------------------------------------------------------------------
(* Claims on the batch of minePatterns *)

\* the eligible posts (not spam, Japanese, buzz at or above the floor)
\* that have no pattern
EligibleUnmined ==
    {i \in DOMAIN externalPosts :
        /\ ~externalPosts[i].isSpamSuspect
        /\ externalPosts[i].isJapanese
        /\ externalPosts[i].buzzScore >= MinBuzzToMine
        /\ \A k \in DOMAIN patterns : patterns[k].externalPostId # i}

\* C16: a run of minePatterns processes the eligible posts without a
\* pattern, most buzz first, capped at the batch size: with n such posts at
\* the start of the run it processes min(n, batch size) of them.
MineProcessesUnminedUpToLimit ==
    [][IsMineStep =>
            /\ result'.processed = Min(Cardinality(EligibleUnmined), MineLimit)
            /\ call'.posts = Take(ByBuzzDesc(EligibleUnmined), MineLimit)]_vars

\* the posts of a run for which extractPattern or the insert threw
Failed(posts, outcomes) ==
    {i \in DOMAIN posts :
        \/ outcomes[posts[i]].kind = "extract_throws"
        \/ /\ outcomes[posts[i]].kind = "insert_throws"
           /\ Accepted(outcomes[posts[i]])}

\* C20: in minePatterns a failure of the classification or of the insert
\* for one post appends exactly one entry to errors and the run goes on
\* with the next post; the returned counts satisfy
\* processed = extracted + skipped + errors.length.
MineErrorsPerPost ==
    [][IsMineStep =>
            LET posts == call'.posts
                failed == Failed(posts, call'.outcomes)
            IN /\ result'.processed = Len(posts)
               /\ Len(result'.errors) = Cardinality(failed)
               /\ \A i \in failed :
                     Cardinality({k \in DOMAIN result'.errors :
                                    result'.errors[k] = posts[i]}) = 1
               /\ \A i \in DOMAIN posts :
                     i \notin failed /\ Accepted(call'.outcomes[posts[i]])
                        => PersistedFor(posts[i])
               /\ result'.processed = result'.extracted + result'.skipped
                                        + Len(result'.errors)]_vars

\* a run in which a post failed and a later post was extracted
WitnessMineErrorsPerPost ==
    /\ call.op = "minePatterns"
    /\ \E i, j \in DOMAIN call.posts :
          /\ i < j
          /\ i \in Failed(call.posts, call.outcomes)
          /\ Accepted(call.outcomes[call.posts[j]])
          /\ j \notin Failed(call.posts, call.outcomes)
          /\ \E k \in DOMAIN patterns :
                patterns[k].externalPostId = call.posts[j]
    /\ Len(result.errors) >= 1
    /\ result.extracted >= 1

----------------------------------------------------------------------------
(* The learning job: runLearningUpdate over published posts and metrics *)

\* bounds of the learning job's tables and clock
LearnLimit == 2
MaxRuns == 2

\* the lookback of runLearningUpdate, 48 hours, in days
LookbackDays == 2

\* one post more is published than a run loads
MaxPublished == LearnLimit + 1

\* the clock runs until the posts of day 0 have left the lookback
MaxLearnDay == LookbackDays + 1

\* the snapshot runLearningUpdate reads
LearnedWindow == 24

\* the armIds of published posts: none, or the arm of a selection
LearnArmIds ==
    {Null,
     getArmId(Arm(<<"x">>, formats[1], hookTypes[1], topics[1], Undefined,
                  <<"morning">>, 1, Undefined))}

\* the impressions a snapshot stores
ImpressionCount == 150

RECURSIVE Reverse(_)
Reverse(seq) ==
    IF seq = <<>> THEN <<>>
    ELSE Append(Reverse(Tail(seq)), Head(seq))

\* runLearningUpdate's query: published in the last 48 hours, newest
\* first, at most LearnLimit.  Rows are inserted as posts are published,
\* so the newest post is the last row
postsToLearn ==
    LET InWindow(post) == post.publishedAt >= now - LookbackDays
    IN Take(Reverse(SelectSeq(publishedPosts, InWindow)), LearnLimit)

\* metrics.findFirst for the post's snapshot of the given window: the
\* rows found
SnapshotsOf(postId, hours) ==
    LET Matches(row) == /\ row.publishedPostId = postId
                        /\ row.hoursAfterPublish = hours
    IN SelectSeq(metrics, Matches)

\* postMetrics.impressionCount || 0
ImpressionsOrZero(row) ==
    IF row.impressionCount \in Nat THEN row.impressionCount ELSE 0

\* the log after a run skipped the post for want of its snapshot
Awaited(entries, postId) == [entries EXCEPT ![postId].awaited = TRUE]

\* the log after a run applied the reward of the post
Applied(entries, postId) == [entries EXCEPT ![postId].updated = @ + 1]

\* LearnStep leaving out a post whose reward was applied before
LearnStepOnce(state, post, outcome) ==
    IF state.thrown THEN state
    ELSE IF post.armId = Null
    THEN [state EXCEPT !.skipped = @ + 1]
    ELSE IF outcome = "findFirst_throws"
    THEN [state EXCEPT !.thrown = TRUE]
    ELSE IF \/ SnapshotsOf(post.id, LearnedWindow) = <<>>
            \/ state.learned[post.id].updated > 0
    THEN [state EXCEPT !.skipped = @ + 1,
                       !.learned = Awaited(@, post.id)]
    ELSE IF outcome = "updateArm_throws"
    THEN [state EXCEPT !.thrown = TRUE]
    ELSE LET postMetrics == Head(SnapshotsOf(post.id, LearnedWindow))
             reward == calculateReward(ImpressionsOrZero(postMetrics), {})
         IN [state EXCEPT
                !.store = UpdatedStore(@, post.armId, post.platform, reward),
                !.updated = @ + 1,
                !.learned = Applied(@, post.id)]

\* one pass of runLearningUpdate's loop body.  outcome tells what the
\* store does for this post: it answers ("ok"), or metrics.findFirst
\* throws, or updateArm throws.  Nothing catches a throw, so it ends the
\* loop and the job
LearnStep(state, post, outcome) ==
    IF state.thrown THEN state
    ELSE IF post.armId = Null
    THEN [state EXCEPT !.skipped = @ + 1]
    ELSE IF outcome = "findFirst_throws"
    THEN [state EXCEPT !.thrown = TRUE]
    ELSE IF SnapshotsOf(post.id, LearnedWindow) = <<>>
    THEN [state EXCEPT !.skipped = @ + 1,
                       !.learned = Awaited(@, post.id)]
    ELSE IF outcome = "updateArm_throws"
    THEN [state EXCEPT !.thrown = TRUE]
    ELSE LET postMetrics == Head(SnapshotsOf(post.id, LearnedWindow))
             reward == calculateReward(ImpressionsOrZero(postMetrics), {})
         IN [state EXCEPT
                !.store = UpdatedStore(@, post.armId, post.platform, reward),
                !.updated = @ + 1,
                !.learned = Applied(@, post.id)]

RECURSIVE LearnLoop(_, _, _)
\* for (const post of postsToLearn)
LearnLoop(state, posts, outcomes) ==
    IF posts = <<>> THEN state
    ELSE LearnLoop(LearnStep(state, Head(posts), outcomes[Head(posts).id]),
                   Tail(posts), outcomes)

\* runLearningUpdate(); outcomes gives the store's behaviour for each post.
\* A throw leaves the caller with the error and no result
runLearningUpdate(outcomes) ==
    LET start == [store |-> armPriors, learned |-> learnLog, updated |-> 0,
                  skipped |-> 0, thrown |-> FALSE]
        end == LearnLoop(start, postsToLearn, outcomes)
    IN /\ armPriors' = end.store
       /\ learnLog' = end.learned
       /\ result' = IF end.thrown THEN [thrown |-> TRUE]
                    ELSE [updated |-> end.updated, skipped |-> end.skipped]
       /\ call' = [op |-> "runLearningUpdate"]

\* the store's behaviour in one run: it answers for every post, or it
\* fails for one of them
LearnOutcomes ==
    LET ids == {postsToLearn[k].id : k \in DOMAIN postsToLearn}
    IN {[i \in ids |-> "ok"]}
         \cup {[i \in ids |-> IF i = failing THEN kind ELSE "ok"] :
                 failing \in ids,
                 kind \in {"findFirst_throws", "updateArm_throws"}}

\* a post is published: the publisher inserts its row
Publish ==
    \E armId \in LearnArmIds :
        /\ Len(publishedPosts) < MaxPublished
        /\ publishedPosts' =
              Append(publishedPosts,
                     [id |-> Len(publishedPosts) + 1, platform |-> <<"x">>,
                      publishedAt |-> now, armId |-> armId])
        /\ learnLog' = Append(learnLog, [awaited |-> FALSE, updated |-> 0])
        /\ UNCHANGED <<armPriors, patterns, templateWeights, now, metrics,
                       call, result, calls>>
        /\ UNCHANGED tasks
        /\ UNCHANGED publishing

\* the snapshots a run of the metrics collector stores: one for every
\* window and every post that was published that long ago and has no
\* snapshot of that window
RECURSIVE Collected(_, _, _)
Collected(rows, posts, hoursWindow) ==
    IF posts = <<>> THEN rows
    ELSE LET post == Head(posts)
             Matches(row) == /\ row.publishedPostId = post.id
                             /\ row.hoursAfterPublish = hoursWindow
             needed == /\ post.publishedAt = now - hoursWindow \div 24
                       /\ SelectSeq(rows, Matches) = <<>>
         IN Collected(IF needed
                      THEN Append(rows,
                                  [publishedPostId |-> post.id,
                                   hoursAfterPublish |-> hoursWindow,
                                   impressionCount |-> ImpressionCount])
                      ELSE rows,
                      Tail(posts), hoursWindow)

\* the metrics collector runs for the 24 hour window; its 6 and 48 hour
\* snapshots are rows runLearningUpdate never reads
CollectMetrics ==
    /\ metrics' = Collected(metrics, publishedPosts, LearnedWindow)
    /\ metrics' # metrics
    /\ UNCHANGED <<armPriors, patterns, templateWeights, now,
                   publishedPosts, learnLog, call, result, calls>>
    /\ UNCHANGED tasks
    /\ UNCHANGED publishing

RunLearningUpdate ==
    \E outcomes \in LearnOutcomes :
        /\ calls < MaxRuns
        /\ runLearningUpdate(outcomes)
        /\ calls' = calls + 1
        /\ UNCHANGED <<patterns, templateWeights, now, publishedPosts, metrics>>
        /\ UNCHANGED tasks
        /\ UNCHANGED publishing

\* a day passes for the learning job
DayPasses ==
    /\ now < MaxLearnDay
    /\ now' = now + 1
    /\ UNCHANGED <<armPriors, patterns, templateWeights, call, result, calls>>
    /\ UNCHANGED learning
    /\ UNCHANGED tasks
    /\ UNCHANGED publishing

NextLearn == Publish \/ CollectMetrics \/ RunLearningUpdate \/ DayPasses

SpecLearn == Init /\ [][NextLearn]_vars

----------------------------------------------------------------------------
(* Claims on runLearningUpdate *)

\* the step is a call of runLearningUpdate
IsLearnStep ==
    /\ call'.op = "runLearningUpdate"
    /\ calls' = calls + 1

\* the call returned its counts
Returned(value) == "thrown" \notin DOMAIN value

\* the post has an armId and a stored 24 hour snapshot
ReadyToLearn(post) ==
    /\ post.armId # Null
    /\ SnapshotsOf(post.id, LearnedWindow) # <<>>

\* C17: a published post with an armId that a run skipped because its 24
\* hour snapshot did not exist yet is caught later: a run made once the
\* snapshot is stored and the post is still inside the 48 hour lookback
\* leaves the post's reward applied to its arm, however many other posts
\* were published in the window.
LearnCatchesAwaitedPost ==
    [][(IsLearnStep /\ Returned(result')) =>
            \A i \in DOMAIN publishedPosts :
                (/\ learnLog[i].awaited
                 /\ ReadyToLearn(publishedPosts[i])
                 /\ publishedPosts[i].publishedAt >= now - LookbackDays)
                    => learnLog'[i].updated >= 1]_vars

\* the pullCount of an arm, 0 while it has no row
PullCount(store, armId) ==
    IF armId \in DOMAIN store THEN store[armId].pullCount ELSE 0

LearnSurvivesStoreFailure ==
    [][IsLearnStep =>
            /\ Returned(result')
            /\ result'.updated + result'.skipped
                  >= Len(postsToLearn) - 1]_vars

----------------------------------------------------------------------------
(* Claims on the rows of the template weights *)

\* the step is a call of synthesizeTemplates
IsSynthStep ==
    /\ call'.op = "synthesizeTemplates"
    /\ calls' = calls + 1

\* the dimensions of a weight row that are populated
Populated(row) ==
    {dimension \in {"format", "hookType", "payloadType"} :
        row[dimension] # Null}

\* the rows of `rows` for one week, platform and value of a dimension
RowsFor(rows, weekStart, platform, dimension, value) ==
    {i \in DOMAIN rows :
        /\ rows[i].weekStart = weekStart
        /\ rows[i].platform = platform
        /\ rows[i][dimension] = value}

\* one row for every configured value of the dimension
OneRowPerValue(rows, weekStart, platform, dimension, configured) ==
    \A v \in Range(configured) :
        Cardinality(RowsFor(rows, weekStart, platform, dimension, v)) = 1

\* how many rows one run of synthesizeTemplates writes
RowsPerWeek == 2 * (Len(formats) + Len(hookTypes) + Len(payloadTypes))

\* C23: after a run of synthesizeTemplates the weight store holds exactly
\* one row per week, platform and configured value of a dimension, each
\* with exactly one of format, hookType and payloadType populated; the
\* first run of a week inserts the rows, a later run of the week adds
\* none, and no run touches a row of another week.
SynthKeepsOneRowPerValue ==
    [][IsSynthStep =>
            /\ \A i \in DOMAIN templateWeights' :
                  /\ Cardinality(Populated(templateWeights'[i])) = 1
                  /\ \A platform \in Platforms :
                        LET weekStart == templateWeights'[i].weekStart
                        IN /\ OneRowPerValue(templateWeights', weekStart,
                                             platform, "format", formats)
                           /\ OneRowPerValue(templateWeights', weekStart,
                                             platform, "hookType", hookTypes)
                           /\ OneRowPerValue(templateWeights', weekStart,
                                             platform, "payloadType",
                                             payloadTypes)
            /\ Len(templateWeights') =
                  IF \E i \in DOMAIN templateWeights :
                        templateWeights[i].weekStart = getWeekStart
                  THEN Len(templateWeights)
                  ELSE Len(templateWeights) + RowsPerWeek
            /\ \A i \in DOMAIN templateWeights :
                  templateWeights[i].weekStart # getWeekStart
                      => templateWeights'[i] = templateWeights[i]]_vars

\* three runs over two weeks left the rows of two weeks: one of the runs
\* updated the rows of its week
WitnessSynthKeepsOneRowPerValue ==
    /\ call.op = "synthesizeTemplates"
    /\ calls = 3
    /\ Len(templateWeights) = 2 * RowsPerWeek
    /\ \E i, j \in DOMAIN templateWeights :
          templateWeights[i].weekStart < templateWeights[j].weekStart

----------------------------------------------------------------------------
(* getPatternDistribution over the pattern store as the database holds it *)

\* how many rows the pattern store holds at the start
MaxStored == 2

RECURSIVE StoresOfLength(_)
\* the stores of n rows: any post with any classification in each row,
\* as the columns of the table admit them
StoresOfLength(n) ==
    IF n = 0 THEN {<<>>}
    ELSE {Append(rows, PatternRow(n, postId, Classifications[c])) :
            rows \in StoresOfLength(n - 1),
            postId \in 1..2,
            c \in DOMAIN Classifications}

StoredPatterns == UNION {StoresOfLength(n) : n \in 0..MaxStored}

InitStored ==
    /\ now = 0
    /\ armPriors = <<>>
    /\ patterns \in StoredPatterns
    /\ templateWeights = <<>>
    /\ publishedPosts = <<>>
    /\ metrics = <<>>
    /\ learnLog = <<>>
    /\ tasks = [t \in 1..NumTasks |-> [pc |-> "idle"]]
    /\ scheduledPosts = DueScheduledPosts
    /\ learningState = <<>>
    /\ platformPosts = [id \in 1..NumScheduled |-> 0]
    /\ call = [op |-> "none"]
    /\ result = <<>>
    /\ calls = 0

GetPatternDistribution ==
    /\ calls < MaxCalls
    /\ result' = getPatternDistribution(DistributionDays)
    /\ call' = [op |-> "getPatternDistribution", days |-> DistributionDays]
    /\ calls' = calls + 1
    /\ UNCHANGED <<armPriors, patterns, templateWeights, now>>
    /\ UNCHANGED learning
    /\ UNCHANGED tasks
    /\ UNCHANGED publishing

NextDistribution == GetPatternDistribution \/ AdvanceClock

SpecDistribution == InitStored /\ [][NextDistribution]_vars

\* the pattern is one minePatterns would have persisted
Usable(row) ==
    /\ row.qualityScore >= QualityOne \div 2
    /\ Len(row.tabooFlags) < 2

----------------------------------------------------------------------------
(* Claims on what one run of runLearningUpdate does *)

RECURSIVE RewardsApplied(_, _)
\* the arm store after one update per post of `posts` that has an armId
\* and a 24 hour snapshot, with the reward of the snapshot's impressions
RewardsApplied(store, posts) ==
    IF posts = <<>> THEN store
    ELSE LET post == Head(posts)
             snapshot == Head(SnapshotsOf(post.id, LearnedWindow))
         IN RewardsApplied(
                IF ReadyToLearn(post)
                THEN UpdatedStore(store, post.armId, post.platform,
                                  calculateReward(snapshot.impressionCount, {}))
                ELSE store,
                Tail(posts))

\* C25: runLearningUpdate calls updateArm exactly once, with reward =
\* calculateReward(24 hour impressions), for every loaded post that has an
\* armId and a 24 hour snapshot and for no other post, and returns counts
\* with updated + skipped = the number of posts loaded.
LearnUpdatesEachReadyPostOnce ==
    [][IsLearnStep =>
            /\ Returned(result')
            /\ result'.updated + result'.skipped = Len(postsToLearn)
            /\ result'.updated =
                  Cardinality({k \in DOMAIN postsToLearn :
                                  ReadyToLearn(postsToLearn[k])})
            /\ armPriors' = RewardsApplied(armPriors, postsToLearn)
            /\ \A i \in DOMAIN publishedPosts :
                  learnLog'[i].updated =
                      learnLog[i].updated
                        + (IF /\ \E k \in DOMAIN postsToLearn :
                                    postsToLearn[k].id = i
                              /\ ReadyToLearn(publishedPosts[i])
                           THEN 1 ELSE 0)]_vars

----------------------------------------------------------------------------
(* Claims on the rows getCurrentWeights reads *)

\* the rows of the platform for the week that starts on the current Monday
RowsOfCurrentWeek(platform) ==
    LET OfThisWeek(row) ==
            /\ row.platform = platform
            /\ row.weekStart = getWeekStart
    IN SelectSeq(templateWeights, OfThisWeek)

----------------------------------------------------------------------------
(* Calls of updateArm and injectExternalPriors that overlap in time.  Each
   call first reads the arm's row (findFirst) and later writes: an UPDATE
   of the row it found, computed from what it read, or an INSERT.  Other
   calls can read and write between the two statements. *)

\* the arm the overlapping calls are made for
SharedArm == FormatArm(<<"x">>, formats[1])

\* the rewards of the overlapping calls of updateArm: below 0, 3 and above 10
SharedRewards == {0 - 15 * RewardScale, 3 * RewardScale, 25 * RewardScale}

\* the alpha of the overlapping calls of injectExternalPriors: 1 + 2 * 0.5
\* and 1 + 2 * 1
SharedPriors == {priorAlpha(1, 2), priorAlpha(2, 2)}

\* armPriors.findFirst({ where: eq(armPriors.armId, armId) }): the row
\* found, if any
FindArm(armId) ==
    IF armId \in DOMAIN armPriors THEN <<armPriors[armId]>> ELSE <<>>

\* the row after an UPDATE that adds to the row as it is now
UpdateWrittenAtomic(current, existing, reward) ==
    UpdatedArmRow(current, reward)

\* the row after updateArm's UPDATE, taking alpha from the row as it is now
\* and beta and pullCount from the row that was read
UpdateWrittenMixed(current, existing, reward) ==
    LET updated == UpdatedArmRow(existing, reward)
    IN [current EXCEPT !.alpha = current.alpha + normalizedReward(reward),
                       !.beta = updated.beta,
                       !.totalReward = updated.totalReward,
                       !.pullCount = updated.pullCount]

\* the row after updateArm's UPDATE ... SET alpha, beta, totalReward,
\* pullCount: the four columns come from the row that was read, the others
\* stay as they are now
UpdateWritten(current, existing, reward) ==
    LET updated == UpdatedArmRow(existing, reward)
    IN [current EXCEPT !.alpha = updated.alpha,
                       !.beta = updated.beta,
                       !.totalReward = updated.totalReward,
                       !.pullCount = updated.pullCount]

\* the row after injectExternalPriors' UPDATE ... SET alpha, source
InjectWritten(current, existing, alpha) ==
    [current EXCEPT !.alpha = Max(existing.alpha, alpha),
                    !.source = "external_patterns"]

\* a call of updateArm starts and reads the arm's row
BeginUpdateArm ==
    \E t \in DOMAIN tasks, reward \in SharedRewards :
        /\ tasks[t].pc # "write"
        /\ calls < MaxCalls
        /\ tasks' = [tasks EXCEPT ![t] =
                        [pc |-> "write", op |-> "updateArm",
                         armId |-> getArmId(SharedArm),
                         platform |-> SharedArm.platform,
                         reward |-> reward,
                         existing |-> FindArm(getArmId(SharedArm))]]
        /\ calls' = calls + 1
        /\ UNCHANGED <<armPriors, patterns, templateWeights, now, call, result>>
        /\ UNCHANGED learning
        /\ UNCHANGED publishing

\* a call of injectExternalPriors reaches the arm and reads its row
BeginInjectArm ==
    \E t \in DOMAIN tasks, alpha \in SharedPriors :
        /\ tasks[t].pc # "write"
        /\ calls < MaxCalls
        /\ tasks' = [tasks EXCEPT ![t] =
                        [pc |-> "write", op |-> "injectExternalPriors",
                         armId |-> getArmId(SharedArm),
                         platform |-> SharedArm.platform,
                         alpha |-> alpha,
                         existing |-> FindArm(getArmId(SharedArm))]]
        /\ calls' = calls + 1
        /\ UNCHANGED <<armPriors, patterns, templateWeights, now, call, result>>
        /\ UNCHANGED learning
        /\ UNCHANGED publishing

\* the store after the task's write, for a task that found a row
StoreAfterUpdate(task) ==
    [armPriors EXCEPT ![task.armId] =
        IF task.op = "updateArm"
        THEN UpdateWritten(@, task.existing[1], task.reward)
        ELSE InjectWritten(@, task.existing[1], task.alpha)]

\* the store after the task's write, for a task that found no row and
\* whose armId is still free
StoreAfterInsert(task) ==
    IF task.op = "updateArm"
    THEN UpdatedStore(armPriors, task.armId, task.platform, task.reward)
    ELSE InjectArm(armPriors, task.platform, SharedArm, task.alpha)

\* the call writes and ends.  It found a row: the UPDATE by the row's id.
\* It found none: the INSERT, which the UNIQUE constraint on arm_id rejects
\* when another call has inserted the armId meanwhile; nothing catches the
\* error, so the call throws
FinishArmWrite ==
    \E t \in DOMAIN tasks :
        LET task == tasks[t]
            conflict == task.existing = <<>> /\ task.armId \in DOMAIN armPriors
        IN /\ task.pc = "write"
           /\ task.op \in {"updateArm", "injectExternalPriors"}
           /\ armPriors' = IF task.existing # <<>> THEN StoreAfterUpdate(task)
                           ELSE IF conflict THEN armPriors
                           ELSE StoreAfterInsert(task)
           /\ tasks' = [tasks EXCEPT ![t] =
                           [task EXCEPT !.pc = IF conflict THEN "thrown"
                                               ELSE "done"]]
           /\ UNCHANGED <<patterns, templateWeights, now, call, result, calls>>
           /\ UNCHANGED learning
           /\ UNCHANGED publishing

NextArmsOverlap == BeginUpdateArm \/ BeginInjectArm \/ FinishArmWrite

SpecArmsOverlap == Init /\ [][NextArmsOverlap]_vars

----------------------------------------------------------------------------
(* Claims on overlapping calls for one arm *)

\* task t completes a call of updateArm in this step, having found a row
CompletesUpdate(t) ==
    /\ tasks[t].pc = "write"
    /\ tasks'[t].pc = "done"
    /\ tasks[t].op = "updateArm"
    /\ tasks[t].existing # <<>>

\* task u has completed a call of updateArm that had read the same row as
\* task t: the two calls overlapped
OverlappedWith(t, u) ==
    /\ u # t
    /\ tasks[u].pc = "done"
    /\ tasks[u].op = "updateArm"
    /\ tasks[u].existing = tasks[t].existing

\* C21: overlapping calls of updateArm on one existing armId lose an
\* update: when the second of two calls that read the same row completes,
\* both have completed, yet pullCount is one above the row they read and
\* alpha, beta and totalReward hold the second call's reward alone.
OverlappingUpdatesLoseOne ==
    [][\A t, u \in DOMAIN tasks :
          (CompletesUpdate(t) /\ OverlappedWith(t, u)) =>
              LET read == tasks[t].existing[1]
                  row == armPriors'[tasks[t].armId]
                  n == normalizedReward(tasks[t].reward)
              IN /\ row.pullCount = read.pullCount + 1
                 /\ row.alpha = read.alpha + n
                 /\ row.beta = read.beta + (AlphaOne - n)
                 /\ row.totalReward = read.totalReward + tasks[t].reward]_vars

\* two calls with different rewards read the same row and both completed;
\* pullCount rose by one
WitnessOverlappingUpdatesLoseOne ==
    \E t, u \in DOMAIN tasks :
        /\ t # u
        /\ tasks[t].pc = "done" /\ tasks[u].pc = "done"
        /\ tasks[t].op = "updateArm" /\ tasks[u].op = "updateArm"
        /\ tasks[t].existing # <<>>
        /\ tasks[t].existing = tasks[u].existing
        /\ normalizedReward(tasks[t].reward) # normalizedReward(tasks[u].reward)
        /\ armPriors[tasks[t].armId].pullCount
              = tasks[t].existing[1].pullCount + 1

\* the task's call has ended, by returning or by throwing
Ended(task) == task.pc \in {"done", "thrown"}

\* C22: when two overlapping callers both create the same arm, neither
\* having found a row, both calls complete without an error and the store
\* holds one row for the armId.
OverlappingCreatorsBothComplete ==
    \A t, u \in DOMAIN tasks :
        (/\ t # u
         /\ Ended(tasks[t]) /\ Ended(tasks[u])
         /\ tasks[t].existing = <<>> /\ tasks[u].existing = <<>>)
            => /\ tasks[t].pc = "done"
               /\ tasks[u].pc = "done"
               /\ tasks[t].armId \in DOMAIN armPriors

\* C27: every arm row that only updateArm created and modified has
\* alpha + beta = 2 + pullCount, alpha >= 1 and beta >= 1, in every state
\* that overlapping calls on the armId reach.
SelfLearnedSumsToPulls ==
    \A id \in DOMAIN armPriors :
        armPriors[id].source = "self_learning" =>
            /\ armPriors[id].alpha + armPriors[id].beta
                  = (2 + armPriors[id].pullCount) * AlphaOne
            /\ armPriors[id].alpha >= AlphaOne
            /\ armPriors[id].beta >= AlphaOne

\* a row of updateArm alone after a call that wrote over another call's
\* update: three calls completed, pullCount is 2
WitnessSelfLearnedSumsToPulls ==
    /\ calls = 3
    /\ \A t \in DOMAIN tasks : tasks[t].pc = "done" /\ tasks[t].op = "updateArm"
    /\ \E id \in DOMAIN armPriors :
          /\ armPriors[id].source = "self_learning"
          /\ armPriors[id].pullCount = 2
          /\ armPriors[id].alpha > AlphaOne
          /\ armPriors[id].beta > AlphaOne

----------------------------------------------------------------------------
(* Runs of minePatterns that overlap in time *)

\* minePatterns up to its loop: the run loads the posts to mine and the ids
\* that have a pattern, and keeps the difference for its loop
BeginMine ==
    \E t \in DOMAIN tasks :
        /\ tasks[t].pc \in {"idle", "done", "thrown"}
        /\ calls < MaxCalls
        /\ tasks' = [tasks EXCEPT ![t] =
                        [pc |-> IF unmined = <<>> THEN "done" ELSE "mining",
                         op |-> "minePatterns",
                         todo |-> unmined,
                         processed |-> 0, extracted |-> 0, skipped |-> 0,
                         errors |-> <<>>]]
        /\ calls' = calls + 1
        /\ UNCHANGED <<armPriors, patterns, templateWeights, now, call, result>>
        /\ UNCHANGED learning
        /\ UNCHANGED publishing

\* one pass of the loop of a run: the next post of the list the run loaded
\* at its start, inserted into the table as it is now
MineNext ==
    \E t \in DOMAIN tasks :
        /\ tasks[t].pc = "mining"
        /\ \E outcome \in PostOutcomes(Head(tasks[t].todo)) :
              LET task == tasks[t]
                  before == [rows |-> patterns,
                             processed |-> task.processed,
                             extracted |-> task.extracted,
                             skipped |-> task.skipped,
                             errors |-> task.errors]
                  after == MineStep(before, Head(task.todo), outcome)
              IN /\ patterns' = after.rows
                 /\ tasks' = [tasks EXCEPT ![t] =
                                 [pc |-> IF Tail(task.todo) = <<>>
                                         THEN "done" ELSE "mining",
                                  op |-> "minePatterns",
                                  todo |-> Tail(task.todo),
                                  processed |-> after.processed,
                                  extracted |-> after.extracted,
                                  skipped |-> after.skipped,
                                  errors |-> after.errors]]
        /\ UNCHANGED <<armPriors, templateWeights, now, call, result, calls>>
        /\ UNCHANGED learning
        /\ UNCHANGED publishing

NextMineOverlap == BeginMine \/ MineNext

SpecMineOverlap == Init /\ [][NextMineOverlap]_vars

----------------------------------------------------------------------------
(* Claims on overlapping runs of minePatterns *)

\* C28: no harvested post has more than one persisted pattern, after any
\* sequence of runs of minePatterns, runs that overlap in time included.
OnePatternPerPost ==
    \A i, j \in DOMAIN patterns :
        patterns[i].externalPostId = patterns[j].externalPostId => i = j

----------------------------------------------------------------------------
(* The publisher: publishDuePosts, publishPost and the policy engine's
   checkPostingAllowed, recordFailure and resetFailures.  Events at one
   value of now are less than minGapMinutes apart. *)

killSwitch == FALSE
maxPostsPerDayX == 40
maxPostsPerDayThreads == 10
minGapMinutes == 20
maxRetries == 3
MinutesPerDay == 1440

\* (failState?.value)?.count || 0
consecutiveFails == IF learningState = <<>> THEN 0 ELSE learningState[1]

\* checkPostingAllowed without its check of the consecutive failures
checkPostingAllowedAnyFails(platform) ==
    LET ofPlatform == {i \in DOMAIN publishedPosts :
                          publishedPosts[i].platform = platform}
        todayPosts == {i \in ofPlatform : publishedPosts[i].publishedAt >= now}
        maxPosts == IF platform = <<"x">> THEN maxPostsPerDayX
                    ELSE maxPostsPerDayThreads
        lastPost == CHOOSE i \in ofPlatform :
                        \A j \in ofPlatform : publishedPosts[j].publishedAt
                                                 <= publishedPosts[i].publishedAt
    IN IF killSwitch
       THEN [passed |-> FALSE, reason |-> "kill_switch"]
       ELSE IF Cardinality(todayPosts) >= maxPosts
       THEN [passed |-> FALSE, reason |-> "daily_limit"]
       ELSE IF /\ ofPlatform # {}
               /\ (now - publishedPosts[lastPost].publishedAt) * MinutesPerDay
                     < minGapMinutes
       THEN [passed |-> FALSE, reason |-> "min_gap"]
       ELSE [passed |-> TRUE, reason |-> "none"]

\* checkPostingAllowed(platform)
checkPostingAllowed(platform) ==
    LET ofPlatform == {i \in DOMAIN publishedPosts :
                          publishedPosts[i].platform = platform}
        todayPosts == {i \in ofPlatform : publishedPosts[i].publishedAt >= now}
        maxPosts == IF platform = <<"x">> THEN maxPostsPerDayX
                    ELSE maxPostsPerDayThreads
        lastPost == CHOOSE i \in ofPlatform :
                        \A j \in ofPlatform : publishedPosts[j].publishedAt
                                                 <= publishedPosts[i].publishedAt
    IN IF killSwitch
       THEN [passed |-> FALSE, reason |-> "kill_switch"]
       ELSE IF consecutiveFails >= maxConsecutiveFails
       THEN [passed |-> FALSE, reason |-> "consecutive_failures"]
       ELSE IF Cardinality(todayPosts) >= maxPosts
       THEN [passed |-> FALSE, reason |-> "daily_limit"]
       ELSE IF /\ ofPlatform # {}
               /\ (now - publishedPosts[lastPost].publishedAt) * MinutesPerDay
                     < minGapMinutes
       THEN [passed |-> FALSE, reason |-> "min_gap"]
       ELSE [passed |-> TRUE, reason |-> "none"]

\* the counter after recordFailure()
recordFailure == <<consecutiveFails + 1>>

\* the counter after resetFailures()
resetFailures == IF learningState = <<>> THEN <<>> ELSE <<0>>

\* the ids of S in the order of scheduledFor, earliest first
RECURSIVE ByScheduledFor(_)
ByScheduledFor(S) ==
    IF S = {} THEN <<>>
    ELSE LET first == CHOOSE i \in S :
                          \A j \in S : scheduledPosts[i].scheduledFor
                                          <= scheduledPosts[j].scheduledFor
         IN <<first>> \o ByScheduledFor(S \ {first})

\* publishDuePosts' query: the rows that are pending and due, as they are
\* when the run loads them, at most DueLimit
duePosts ==
    LET due == {id \in DOMAIN scheduledPosts :
                   /\ scheduledPosts[id].status = "pending"
                   /\ scheduledPosts[id].scheduledFor <= now}
        ids == Take(ByScheduledFor(due), DueLimit)
    IN [k \in DOMAIN ids |-> scheduledPosts[ids[k]]]

\* the row publishPost inserts into published_posts
PublishedRow(scheduled) ==
    [id |-> Len(publishedPosts) + 1,
     scheduledPostId |-> scheduled.id,
     platform |-> scheduled.platform,
     publishedAt |-> now]

\* scheduled_posts after the catch block of publishPost: the retry count is
\* the one of the row the run loaded, plus one
AfterCatch(scheduled) ==
    LET newRetryCount == scheduled.retryCount + 1
    IN IF newRetryCount >= maxRetries
       THEN [scheduledPosts EXCEPT ![scheduled.id].status = "failed",
                                   ![scheduled.id].retryCount = newRetryCount]
       ELSE [scheduledPosts EXCEPT ![scheduled.id].retryCount = newRetryCount]

\* what the platform and the store do in one publishPost: all succeed, or
\* the platform call throws, or the platform accepts the post and the insert
\* into published_posts or the update of scheduled_posts then throws
PublishOutcomes == {"ok", "post_throws", "insert_throws", "update_throws"}

\* the task after the post at the head of its list
NextPost(task) ==
    [pc |-> IF Tail(task.todo) = <<>> THEN "done" ELSE "check",
     op |-> "publishDuePosts",
     todo |-> Tail(task.todo)]

\* publishDuePosts up to its loop, as the first task that is free
BeginPublishDue ==
    \E t \in DOMAIN tasks :
        /\ tasks[t].pc \in {"idle", "done"}
        /\ \A u \in DOMAIN tasks : u < t => tasks[u].pc \notin {"idle", "done"}
        /\ calls < MaxRuns
        /\ tasks' = [tasks EXCEPT ![t] =
                        [pc |-> IF duePosts = <<>> THEN "done" ELSE "check",
                         op |-> "publishDuePosts",
                         todo |-> duePosts]]
        /\ calls' = calls + 1
        /\ UNCHANGED <<armPriors, patterns, templateWeights, now, call, result>>
        /\ UNCHANGED learning
        /\ UNCHANGED publishing

\* publishPost up to the platform call: checkPostingAllowed
CheckPosting ==
    \E t \in DOMAIN tasks :
        /\ tasks[t].pc = "check"
        /\ LET task == tasks[t]
               allowedCheck == checkPostingAllowed(Head(task.todo).platform)
           IN tasks' = [tasks EXCEPT ![t] =
                           IF allowedCheck.passed
                           THEN [task EXCEPT !.pc = "post"]
                           ELSE NextPost(task)]
        /\ UNCHANGED <<armPriors, patterns, templateWeights, now, call, result,
                       calls>>
        /\ UNCHANGED learning
        /\ UNCHANGED publishing

\* publishPost from the platform call on: the try block and, when a call in
\* it throws, the catch block
PostAndRecord ==
    \E t \in DOMAIN tasks, outcome \in PublishOutcomes :
        /\ tasks[t].pc = "post"
        /\ LET task == tasks[t]
               scheduled == Head(task.todo)
           IN /\ platformPosts' =
                    IF outcome = "post_throws" THEN platformPosts
                    ELSE [platformPosts EXCEPT ![scheduled.id] = @ + 1]
              /\ publishedPosts' =
                    IF outcome \in {"ok", "update_throws"}
                    THEN Append(publishedPosts, PublishedRow(scheduled))
                    ELSE publishedPosts
              /\ scheduledPosts' =
                    IF outcome = "ok"
                    THEN [scheduledPosts EXCEPT ![scheduled.id].status = "published"]
                    ELSE AfterCatch(scheduled)
              /\ learningState' =
                    IF outcome = "ok" THEN resetFailures ELSE recordFailure
              /\ tasks' = [tasks EXCEPT ![t] = NextPost(task)]
        /\ UNCHANGED <<armPriors, patterns, templateWeights, now, call, result,
                       calls, metrics, learnLog>>

\* a day passes between runs of publishDuePosts: a run lasts minutes
DayPassesBetweenRuns ==
    /\ \A t \in DOMAIN tasks : tasks[t].pc \in {"idle", "done"}
    /\ AdvanceClock

NextPublish ==
    BeginPublishDue \/ CheckPosting \/ PostAndRecord \/ DayPassesBetweenRuns

SpecPublish == Init /\ [][NextPublish]_vars

----------------------------------------------------------------------------
(* Claims on the publisher *)

\* C29: a scheduled post is posted to the platform at most once, also when
\* a store write fails after the platform call or two runs of
\* publishDuePosts overlap.
PostedAtMostOnce ==
    \A id \in DOMAIN platformPosts : platformPosts[id] <= 1

\* the counter has reached maxConsecutiveFails
Blocked == consecutiveFails >= maxConsecutiveFails

\* a publishPost of task t has passed checkPostingAllowed and has not ended
PastCheck(t) == tasks[t].pc = "post"

\* Once the consecutive-failure counter has reached maxConsecutiveFails,
\* the counter keeps its value in every later step.
BlockedCounterIsKept ==
    [][Blocked => learningState' = learningState]_vars

\* C30: once the consecutive-failure counter has reached
\* maxConsecutiveFails and no publishPost that passed checkPostingAllowed
\* before is still running, checkPostingAllowed rejects every publish
\* attempt before the platform is called, so neither recordFailure nor
\* resetFailures runs again: the counter keeps its value and publishing
\* stays blocked in every later step.
BlockedStaysBlockedOnceQuiet ==
    [][(Blocked /\ \A t \in DOMAIN tasks : ~PastCheck(t)) =>
          /\ learningState' = learningState
          /\ platformPosts' = platformPosts
          /\ \A t \in DOMAIN tasks : ~PastCheck(t)']_vars

\* the counter stands at maxConsecutiveFails and every run has ended;
\* nothing was published, so every scheduled post is pending and every run
\* loaded all of them: more attempts were made than failures were recorded,
\* and the others were rejected for the counter
WitnessBlockedStaysBlockedOnceQuiet ==
    /\ learningState = <<maxConsecutiveFails>>
    /\ publishedPosts = <<>>
    /\ calls * Min(NumScheduled, DueLimit) > maxConsecutiveFails
    /\ \A id \in DOMAIN scheduledPosts : scheduledPosts[id].status = "pending"
    /\ \A t \in DOMAIN tasks :
          tasks[t].pc = "done" /\ tasks[t].op = "publishDuePosts"

====
